---- MODULE Spec2Model ----
(***************************************************************************)
(* The KPI computation and input-validation layer of src/lib/excel-utils.ts *)
(* (parseExcelFile, the validate* helpers and calculateKPIs), and the pages *)
(* that use it: the Upload page, with and without its file gate, and the    *)
(* Dashboard.                                                               *)
(*                                                                          *)
(* JavaScript numbers are modelled as exact decimals.  A finite number is   *)
(* the triple <<n, d, e>> standing for (n / d) * 10^e, in the canonical     *)
(* form: an integer value has d = 1 and n not divisible by 10 (zero is      *)
(* <<0, 1, 0>>); a non-integer value has e = 0 and n / d in lowest terms.   *)
(* The three non-finite numbers NaN, Infinity and -Infinity are the triples *)
(* with d = 0.  Rounding of binary floating point is not modelled.          *)
(* JavaScript strings are sequences of one-character strings.               *)
(***************************************************************************)
EXTENDS Integers, Sequences, FiniteSets, TLC

VARIABLES
    file,          \* the file handed to parseExcelFile, as the reader and XLSX see it
    tz,            \* the browser's time zone, in minutes east of UTC
    reader,        \* the FileReader: "reading" until its load or error event fires
    promise,       \* the promise parseExcelFile returned
    settled,       \* how many times resolve or reject has been invoked
    data,          \* the argument of calculateKPIs
    kpis,          \* what the calls of calculateKPIs returned or threw, in order
    validation,    \* a value under validation: the cell, the validator, its outcomes
    selected,      \* the Upload page's file state: <<>> for null, <<f>> for a file
    fileError,     \* the Upload page's fileError state: <<>> for null, <<e>> for a message
    uploading,     \* the Upload page's uploading state
    success,       \* the Upload page's success state
    pc,            \* where handleUpload stands: "idle", or "awaiting" the parse
    timers,        \* how many setTimeout callbacks wait to navigate
    effects,       \* the last handler that ran and what it did, in order
    storage,       \* sessionStorage's financialData: <<>> for none, <<text>> for an item
    location,      \* the route shown
    mounted,       \* whether the Dashboard's effect has run
    chart,         \* the Dashboard's rendered chartData: <<>> while it shows Loading
    cashZero       \* the Dashboard's rendered Cash Zero Date: <<>> while it shows Loading

parseVars == <<file, tz, reader, promise, settled>>
kpiVars == <<data, kpis>>
uploadVars == <<selected, fileError, uploading, success, pc, timers>>
dashboardVars == <<mounted, chart, cashZero>>

vars ==
    <<file, tz, reader, promise, settled, data, kpis, validation, selected, fileError,
      uploading, success, pc, timers, effects, storage, location, mounted, chart, cashZero>>

-----------------------------------------------------------------------------
(* Call by value.  JavaScript evaluates an argument once, before the call;   *)
(* Only({ body : x \in {arg} }) does the same: it evaluates arg once and     *)
(* binds x to its value in body.                                             *)

Only(S) == CHOOSE x \in S : TRUE

-----------------------------------------------------------------------------
(* Numbers *)

NaN == <<0, 0, 0>>
PosInf == <<1, 0, 0>>
NegInf == <<-1, 0, 0>>
Zero == <<0, 1, 0>>

IsFiniteNum(a) == a[2] # 0

Abs(x) == IF x < 0 THEN -x ELSE x
Min2(x, y) == IF x < y THEN x ELSE y

RECURSIVE GCD(_, _)
GCD(a0, b0) == Only({IF b = 0 THEN a ELSE GCD(b, a % b) : a \in {a0}, b \in {b0}})

RECURSIVE Pow10(_)
Pow10(k0) == Only({IF k = 0 THEN 1 ELSE 10 * Pow10(k - 1) : k \in {k0}})

RECURSIVE StripZeros(_, _)
StripZeros(n0, e0) ==
    Only({IF n % 10 = 0 THEN StripZeros(n \div 10, e + 1) ELSE <<n, 1, e>> :
          n \in {n0}, e \in {e0}})

\* The canonical form of (n / d) * 10^e, for d > 0 and e >= 0.
RECURSIVE Norm(_, _, _)
Norm(n0, d0, e0) ==
    Only({IF n = 0 THEN Zero
          ELSE Only({IF d \div g = 1 THEN StripZeros(n \div g, e)
                     ELSE IF e = 0 THEN <<n \div g, d \div g, 0>>
                     ELSE Norm((n \div g) * 10, d \div g, e - 1) :
                     g \in {GCD(Abs(n), d)}}) :
          n \in {n0}, d \in {d0}, e \in {e0}})

Int2Num(i) == Norm(i, 1, 0)

Sign(a0) ==
    Only({IF a[2] = 0 THEN a[1]
          ELSE IF a[1] > 0 THEN 1 ELSE IF a[1] < 0 THEN -1 ELSE 0 : a \in {a0}})

Neg(a0) == Only({<<-a[1], a[2], a[3]>> : a \in {a0}})

Add(a0, b0) ==
    Only({IF a = NaN \/ b = NaN THEN NaN
          ELSE IF ~IsFiniteNum(a) THEN (IF ~IsFiniteNum(b) /\ b # a THEN NaN ELSE a)
          ELSE IF ~IsFiniteNum(b) THEN b
          ELSE IF a[1] = 0 THEN b
          ELSE IF b[1] = 0 THEN a
          ELSE Only({Norm(a[1] * Pow10(a[3] - m) * b[2] + b[1] * Pow10(b[3] - m) * a[2],
                          a[2] * b[2], m) : m \in {Min2(a[3], b[3])}}) :
          a \in {a0}, b \in {b0}})

Sub(a, b) == Add(a, Neg(b))

Mul(a0, b0) ==
    Only({IF a = NaN \/ b = NaN THEN NaN
          ELSE IF ~IsFiniteNum(a) \/ ~IsFiniteNum(b)
               THEN (IF Sign(a) * Sign(b) = 0 THEN NaN
                     ELSE IF Sign(a) * Sign(b) > 0 THEN PosInf ELSE NegInf)
          ELSE IF a[1] = 0 \/ b[1] = 0 THEN Zero
          ELSE Only({Norm((a[1] \div g1) * (b[1] \div g2),
                          (a[2] \div g2) * (b[2] \div g1), a[3] + b[3]) :
                     g1 \in {GCD(Abs(a[1]), b[2])}, g2 \in {GCD(Abs(b[1]), a[2])}}) :
          a \in {a0}, b \in {b0}})

\* a / b as JavaScript computes it: a division by zero is Infinity, -Infinity
\* or NaN, never an exception.
Div(a0, b0) ==
    Only({IF a = NaN \/ b = NaN THEN NaN
          ELSE IF ~IsFiniteNum(a)
               THEN (IF ~IsFiniteNum(b) THEN NaN
                     ELSE IF Sign(b) >= 0 THEN a ELSE Neg(a))
          ELSE IF ~IsFiniteNum(b) THEN Zero
          ELSE IF b[1] = 0
               THEN (IF a[1] = 0 THEN NaN ELSE IF a[1] > 0 THEN PosInf ELSE NegInf)
          ELSE IF a[1] = 0 THEN Zero
          ELSE Only({IF a[3] >= b[3]
                     THEN Norm((IF b[1] < 0 THEN -1 ELSE 1) * (a[1] \div g1) * (b[2] \div g2),
                               (a[2] \div g2) * (Abs(b[1]) \div g1), a[3] - b[3])
                     ELSE Norm((IF b[1] < 0 THEN -1 ELSE 1) * (a[1] \div g1) * (b[2] \div g2),
                               (a[2] \div g2) * (Abs(b[1]) \div g1) * Pow10(b[3] - a[3]), 0) :
                     g1 \in {GCD(Abs(a[1]), Abs(b[1]))}, g2 \in {GCD(a[2], b[2])}}) :
          a \in {a0}, b \in {b0}})

\* L < R * 10^k and L > R * 10^k for naturals, without forming R * 10^k.
RECURSIVE LtShift(_, _, _)
LtShift(L0, R0, k0) ==
    Only({IF k = 0 THEN L < R ELSE LtShift(L \div 10, R, k - 1) :
          L \in {L0}, R \in {R0}, k \in {k0}})

RECURSIVE GtShift(_, _, _)
GtShift(L0, R0, k0) ==
    Only({IF k = 0 THEN L > R ELSE GtShift((L + 9) \div 10, R, k - 1) :
          L \in {L0}, R \in {R0}, k \in {k0}})

\* a < b for finite a, b >= 0
MagLt(a, b) ==
    IF a[3] >= b[3] THEN GtShift(b[1] * a[2], a[1] * b[2], a[3] - b[3])
    ELSE LtShift(a[1] * b[2], b[1] * a[2], b[3] - a[3])

\* a < b; every comparison with NaN is false.
Lt(a0, b0) ==
    Only({IF a = NaN \/ b = NaN THEN FALSE
          ELSE IF a = b THEN FALSE
          ELSE IF a = NegInf \/ b = PosInf THEN TRUE
          ELSE IF a = PosInf \/ b = NegInf THEN FALSE
          ELSE IF Sign(a) # Sign(b) THEN Sign(a) < Sign(b)
          ELSE IF Sign(a) > 0 THEN MagLt(a, b)
          ELSE MagLt(<<-b[1], b[2], b[3]>>, <<-a[1], a[2], a[3]>>) :
          a \in {a0}, b \in {b0}})

Gt(a, b) == Lt(b, a)

\* Math.floor
Floor(a0) ==
    Only({IF ~IsFiniteNum(a) THEN a
          ELSE IF a[2] = 1 THEN a
          ELSE Norm(a[1] \div a[2], 1, 0) : a \in {a0}})

\* ToBoolean of a number: 0 and NaN are falsy.
TruthyNum(a0) == Only({a # Zero /\ a # NaN : a \in {a0}})

-----------------------------------------------------------------------------
(* Strings: sequences of one-character strings *)

Digits == <<"0", "1", "2", "3", "4", "5", "6", "7", "8", "9">>
IsDigit(c) == \E i \in 1..10 : Digits[i] = c
DigitVal(c) == (CHOOSE i \in 1..10 : Digits[i] = c) - 1
IsWhiteSpace(c) == c = " "

\* The first index >= i of s that holds no digit (Len(s) + 1 if none).
RECURSIVE DigitsEnd(_, _)
DigitsEnd(s, i0) ==
    Only({IF i <= Len(s) /\ IsDigit(s[i]) THEN DigitsEnd(s, i + 1) ELSE i : i \in {i0}})

\* The first index >= i of s that holds no white space.
RECURSIVE SkipWhiteSpace(_, _)
SkipWhiteSpace(s, i0) ==
    Only({IF i <= Len(s) /\ IsWhiteSpace(s[i]) THEN SkipWhiteSpace(s, i + 1) ELSE i :
          i \in {i0}})

\* The last index <= i of s that holds no white space (0 if none).
RECURSIVE SkipWhiteSpaceBack(_, _)
SkipWhiteSpaceBack(s, i0) ==
    Only({IF i >= 1 /\ IsWhiteSpace(s[i]) THEN SkipWhiteSpaceBack(s, i - 1) ELSE i :
          i \in {i0}})

\* String.prototype.trim
Trim(s0) ==
    Only({SubSeq(s, SkipWhiteSpace(s, 1), SkipWhiteSpaceBack(s, Len(s))) : s \in {s0}})

\* String.prototype.substring(0, n)
Substring0(s0, n) == Only({SubSeq(s, 1, Min2(n, Len(s))) : s \in {s0}})

\* The number the digits s[i .. j-1] write in base ten after the digits of acc.
RECURSIVE DigitsValue(_, _, _, _)
DigitsValue(s, i0, j, acc0) ==
    Only({IF i >= j THEN acc
          ELSE DigitsValue(s, i + 1, j,
                           Add(Mul(acc, Int2Num(10)), Int2Num(DigitVal(s[i])))) :
          i \in {i0}, acc \in {acc0}})

\* The same as a TLA+ integer, for short runs of digits.
RECURSIVE DigitsInt(_, _, _, _)
DigitsInt(s, i0, j, acc0) ==
    Only({IF i >= j THEN acc ELSE DigitsInt(s, i + 1, j, acc * 10 + DigitVal(s[i])) :
          i \in {i0}, acc \in {acc0}})

StartsWith(s, i, w) ==
    /\ i + Len(w) - 1 <= Len(s)
    /\ \A k \in 1..Len(w) : s[i + k - 1] = w[k]

InfinityWord == <<"I", "n", "f", "i", "n", "i", "t", "y">>

\* The exponent part of a StrDecimalLiteral at s[mantEnd], applied to mant: it
\* counts only if at least one digit follows the e and the optional sign.
ApplyExponent(s, mantEnd, mant) ==
    IF ~(mantEnd <= Len(s) /\ s[mantEnd] \in {"e", "E"}) THEN mant
    ELSE Only({Only({IF expEnd = q THEN mant
                     ELSE IF s[q - 1] = "-"
                     THEN Div(mant, <<1, 1, DigitsInt(s, q, expEnd, 0)>>)
                     ELSE Mul(mant, <<1, 1, DigitsInt(s, q, expEnd, 0)>>) :
                     expEnd \in {DigitsEnd(s, q)}}) :
               q \in {IF mantEnd + 1 <= Len(s) /\ s[mantEnd + 1] \in {"+", "-"}
                      THEN mantEnd + 2 ELSE mantEnd + 1}})

\* The unsigned StrDecimalLiteral that starts at s[p]: digits, an optional
\* fraction, an optional exponent; NaN if there is not one digit.
UnsignedLiteral(s, p) ==
    Only({Only({IF intEnd = p /\ fracEnd <= intEnd + 1 THEN NaN
                ELSE IF fracEnd > intEnd + 1
                THEN ApplyExponent(s, fracEnd,
                         Div(DigitsValue(s, intEnd + 1, fracEnd,
                                         DigitsValue(s, p, intEnd, Zero)),
                             <<1, 1, fracEnd - (intEnd + 1)>>))
                ELSE ApplyExponent(s, IF fracEnd > intEnd THEN fracEnd ELSE intEnd,
                                   DigitsValue(s, p, intEnd, Zero)) :
                fracEnd \in {IF intEnd <= Len(s) /\ s[intEnd] = "."
                             THEN DigitsEnd(s, intEnd + 1) ELSE intEnd}}) :
          intEnd \in {DigitsEnd(s, p)}})

\* parseFloat: the value of the longest prefix of the string, leading white
\* space skipped, that is a StrDecimalLiteral; NaN if there is none.
parseFloat(s0) ==
    Only({Only({Only({IF StartsWith(s, p, InfinityWord)
                      THEN (IF p > p0 /\ s[p0] = "-" THEN NegInf ELSE PosInf)
                      ELSE IF p > p0 /\ s[p0] = "-" THEN Neg(UnsignedLiteral(s, p))
                      ELSE UnsignedLiteral(s, p) :
                      p \in {IF p0 <= Len(s) /\ s[p0] \in {"+", "-"} THEN p0 + 1 ELSE p0}}) :
                p0 \in {SkipWhiteSpace(s, 1)}}) :
          s \in {s0}})

\* The decimal digits of a natural number.
RECURSIVE NatDigits(_)
NatDigits(n0) ==
    Only({IF n < 10 THEN <<Digits[n + 1]>>
          ELSE NatDigits(n \div 10) \o <<Digits[(n % 10) + 1]>> : n \in {n0}})

Zeros(k) == [i \in 1..k |-> "0"]

\* The digits of r / d after the decimal point, for 0 <= r < d (at most left).
RECURSIVE FracDigits(_, _, _)
FracDigits(r0, d, left0) ==
    Only({IF r = 0 \/ left = 0 THEN <<>>
          ELSE <<Digits[((r * 10) \div d) + 1]>> \o FracDigits((r * 10) % d, d, left - 1) :
          r \in {r0}, left \in {left0}})

\* The first index >= i of s that holds no "0" (Len(s) + 1 if none).
RECURSIVE ZerosEnd(_, _)
ZerosEnd(s, i0) ==
    Only({IF i <= Len(s) /\ s[i] = "0" THEN ZerosEnd(s, i + 1) ELSE i : i \in {i0}})

\* The exponent form Number::toString gives 0 < |x| < 10^-6: the significant
\* digits, a point after the first when there are more, e- and the exponent.
ExponentForm(frac0) ==
    Only({Only({<<frac[z]>>
                \o (IF z < Len(frac) THEN <<".">> \o SubSeq(frac, z + 1, Len(frac)) ELSE <<>>)
                \o <<"e", "-">> \o NatDigits(z) :
                z \in {ZerosEnd(frac, 1)}}) :
          frac \in {frac0}})

\* The digits of a natural number in groups of three, commas between them.
GroupThousands(digits) ==
    [i \in 1..(Len(digits) + ((Len(digits) - 1) \div 3)) |->
        LET fromEnd == (Len(digits) + ((Len(digits) - 1) \div 3)) - i
        IN  IF fromEnd % 4 = 3 THEN "," ELSE digits[Len(digits) - (fromEnd - (fromEnd \div 4))]]

\* A faulty variant: the number as toLocaleString('en-US') writes it, its
\* integer digits grouped by commas.
NumberToLocaleString(a0) ==
    Only({IF a = NaN THEN <<"N", "a", "N">>
          ELSE IF a = PosInf THEN InfinityWord
          ELSE IF a = NegInf THEN <<"-">> \o InfinityWord
          ELSE (IF a[1] < 0 THEN <<"-">> ELSE <<>>)
               \o (IF a[2] = 1
                   THEN GroupThousands(NatDigits(Abs(a[1]))
                                       \o (IF a[1] = 0 THEN <<>> ELSE Zeros(a[3])))
                   ELSE GroupThousands(NatDigits(Abs(a[1]) \div a[2])) \o <<".">>
                        \o FracDigits(Abs(a[1]) % a[2], a[2], 3)) :
          a \in {a0}})

\* Number::toString(x) in base ten, for |x| < 10^21: digits with no exponent
\* from 10^-6 up, the exponent form below.
NumberToString(a0) ==
    Only({IF a = NaN THEN <<"N", "a", "N">>
          ELSE IF a = PosInf THEN InfinityWord
          ELSE IF a = NegInf THEN <<"-">> \o InfinityWord
          ELSE (IF a[1] < 0 THEN <<"-">> ELSE <<>>)
               \o (IF a[2] = 1
                   THEN NatDigits(Abs(a[1])) \o (IF a[1] = 0 THEN <<>> ELSE Zeros(a[3]))
                   ELSE IF Abs(a[1]) <= (a[2] - 1) \div 1000000
                   THEN ExponentForm(FracDigits(Abs(a[1]), a[2], 30))
                   ELSE NatDigits(Abs(a[1]) \div a[2]) \o <<".">>
                        \o FracDigits(Abs(a[1]) % a[2], a[2], 17)) :
          a \in {a0}})

-----------------------------------------------------------------------------
(* JavaScript values found in a decoded row, and thrown errors *)

\* A cell of a row object: t is the typeof tag; n holds a number (and 1 or 0 for
\* the booleans true and false), s holds a string.
Undefined == [t |-> "undefined", n |-> Zero, s |-> <<>>]
NumCell(a) == [t |-> "number", n |-> a, s |-> <<>>]
StrCell(w) == [t |-> "string", n |-> Zero, s |-> w]
BoolCell(b) == [t |-> "boolean", n |-> IF b THEN Int2Num(1) ELSE Zero, s |-> <<>>]

\* ToBoolean
Truthy(v0) ==
    Only({CASE v.t = "undefined" -> FALSE
            [] v.t = "number" -> TruthyNum(v.n)
            [] v.t = "string" -> v.s # <<>>
            [] v.t = "boolean" -> v.n # Zero : v \in {v0}})

\* a || b
OrElse(a0, b) == Only({IF Truthy(a) THEN a ELSE b : a \in {a0}})

\* String(v)
ToStr(v0) ==
    Only({CASE v.t = "undefined" -> <<"u", "n", "d", "e", "f", "i", "n", "e", "d">>
            [] v.t = "number" -> NumberToString(v.n)
            [] v.t = "string" -> v.s
            [] v.t = "boolean" -> IF v.n # Zero THEN <<"t", "r", "u", "e">>
                                               ELSE <<"f", "a", "l", "s", "e">> :
          v \in {v0}})

\* v === undefined || v === null || v === '' (a row object holds no null)
IsBlank(v0) == Only({v.t = "undefined" \/ (v.t = "string" /\ v.s = <<>>) : v \in {v0}})

\* An Error: text is the message with its interpolated parts taken out, field
\* the ${fieldName}, lo and hi the ${min} and ${max}, row the N of a "Row N: "
\* prefix (0 for no prefix), count the ${jsonData.length}, limit the ${MAX_ROWS}.
Err(text, field, lo, hi) ==
    [text |-> text, field |-> field, lo |-> lo, hi |-> hi,
     row |-> 0, count |-> 0, limit |-> 0]
PlainErr(text) == Err(text, "", Zero, Zero)

\* The outcome of a call that may throw.
Return(v) == [ok |-> TRUE, val |-> v, err |-> PlainErr("")]
Throw(e) == [ok |-> FALSE, val |-> <<>>, err |-> e]

-----------------------------------------------------------------------------
(* Validation constants and helpers *)

MAX_ROWS == 1000
MAX_NUMBER_VALUE == <<1, 1, 12>>
MIN_NUMBER_VALUE == <<-1, 1, 12>>
MAX_DATE_STRING_LENGTH == 50
HUNDRED == Int2Num(100)

validateNumber(val0, fieldName, min, max, allowZero) ==
    Only({IF IsBlank(val)
          THEN IF allowZero THEN Return(Zero)
               ELSE Throw(Err("is required", fieldName, Zero, Zero))
          ELSE Only({IF num = NaN \/ ~IsFiniteNum(num)
                     THEN Throw(Err("Invalid: must be a valid number", fieldName, Zero, Zero))
                     ELSE IF Lt(num, min) \/ Gt(num, max)
                     THEN Throw(Err("Invalid: value must be between", fieldName, min, max))
                     ELSE Return(num) :
                     num \in {parseFloat(ToStr(val))}}) :
          val \in {val0}})

\* A faulty variant: the lower bound is the general one, not 0.
validatePositiveNumberAnySign(val, fieldName) ==
    validateNumber(val, fieldName, MIN_NUMBER_VALUE, MAX_NUMBER_VALUE, TRUE)

validatePositiveNumber(val, fieldName) ==
    validateNumber(val, fieldName, Zero, MAX_NUMBER_VALUE, TRUE)

validatePercentage(val, fieldName) ==
    validateNumber(val, fieldName, Zero, HUNDRED, TRUE)

-----------------------------------------------------------------------------
(* Dates.  A time value is a number of milliseconds since 1970-01-01T00:00Z,  *)
(* or NaN for an Invalid Date.                                                *)

MS_PER_DAY == <<864, 1, 5>>
MS_PER_MINUTE == <<6, 1, 4>>
MAX_TIME_VALUE == <<864, 1, 13>>

\* The day number (days since 1970-01-01) of the civil date y-m-d.
DaysFromEra(era, yoe, doy) ==
    era * 146097 + yoe * 365 + (yoe \div 4) - (yoe \div 100) + doy - 719468

DaysFromCivil(y, m, d) ==
    Only({DaysFromEra(y1 \div 400, y1 - (y1 \div 400) * 400,
                      ((153 * (IF m > 2 THEN m - 3 ELSE m + 9) + 2) \div 5) + d - 1) :
          y1 \in {IF m <= 2 THEN y - 1 ELSE y}})

\* The civil date <<y, m, d>> of the day doy (counted from 1 March) of the
\* year yoe of the 400-year era.
CivilFromEra(era, yoe, doy) ==
    Only({<<yoe + era * 400 + (IF mp < 10 THEN 0 ELSE 1),
            IF mp < 10 THEN mp + 3 ELSE mp - 9,
            doy - ((153 * mp + 2) \div 5) + 1>> :
          mp \in {(5 * doy + 2) \div 153}})

\* The civil date <<y, m, d>> of a day number.
CivilFromDays(days) ==
    Only({Only({Only({CivilFromEra(era, yoe, doe - (365 * yoe + (yoe \div 4) - (yoe \div 100))) :
                      yoe \in {(doe - (doe \div 1460) + (doe \div 36524)
                                - (doe \div 146096)) \div 365}}) :
                doe \in {days + 719468 - era * 146097}}) :
          era \in {(days + 719468) \div 146097}})

IsLeap(y) == (y % 4 = 0 /\ y % 100 # 0) \/ y % 400 = 0
DaysInMonth(y, m) ==
    IF m = 2 THEN (IF IsLeap(y) THEN 29 ELSE 28)
    ELSE IF m \in {4, 6, 9, 11} THEN 30 ELSE 31

AllDigits(s, i, j) == \A k \in i..j : IsDigit(s[k])

\* The time value of the UTC midnight that starts y-m-d, NaN if y-m-d is no
\* calendar date.
UTCMidnight(y0, m0, d0) ==
    Only({IF m < 1 \/ m > 12 \/ d < 1 \/ d > DaysInMonth(y, m) THEN NaN
          ELSE Mul(Int2Num(DaysFromCivil(y, m, d)), MS_PER_DAY) :
          y \in {y0}, m \in {m0}, d \in {d0}})

\* Date.parse, for the date-only forms YYYY-MM-DD and YYYY-MM of the ECMAScript
\* date-time string format (read as UTC); NaN for every other string.  The
\* strings the model feeds it are of these forms or are parsed by no engine.
DateParse(s0) ==
    Only({IF /\ Len(s) = 10 /\ AllDigits(s, 1, 4) /\ s[5] = "-"
             /\ AllDigits(s, 6, 7) /\ s[8] = "-" /\ AllDigits(s, 9, 10)
          THEN UTCMidnight(DigitsInt(s, 1, 5, 0), DigitsInt(s, 6, 8, 0),
                           DigitsInt(s, 9, 11, 0))
          ELSE IF Len(s) = 7 /\ AllDigits(s, 1, 4) /\ s[5] = "-" /\ AllDigits(s, 6, 7)
          THEN UTCMidnight(DigitsInt(s, 1, 5, 0), DigitsInt(s, 6, 8, 0), 1)
          ELSE NaN :
          s \in {s0}})

\* new Date(value).getTime() for a number: TimeClip
TimeClip(ms0) ==
    Only({IF ~IsFiniteNum(ms) THEN NaN
          ELSE IF Gt(ms, MAX_TIME_VALUE) \/ Lt(ms, Neg(MAX_TIME_VALUE)) THEN NaN
          ELSE IF Sign(ms) >= 0 THEN Floor(ms) ELSE Neg(Floor(Neg(ms))) :
          ms \in {ms0}})

\* A finite integer-valued number as a TLA+ integer.
NumToInt(a0) == Only({a[1] * Pow10(a[3]) : a \in {a0}})

Pad(digits0, width) ==
    Only({IF Len(digits) >= width THEN digits ELSE Zeros(width - Len(digits)) \o digits :
          digits \in {digits0}})

\* date.toISOString().split('T')[0] for a valid time value
ISODatePart(ms) ==
    Only({(IF ymd[1] >= 0 /\ ymd[1] <= 9999 THEN Pad(NatDigits(ymd[1]), 4)
           ELSE (IF ymd[1] < 0 THEN <<"-">> ELSE <<"+">>) \o Pad(NatDigits(Abs(ymd[1])), 6))
          \o <<"-">> \o Pad(NatDigits(ymd[2]), 2) \o <<"-">> \o Pad(NatDigits(ymd[3]), 2) :
          ymd \in {CivilFromDays(NumToInt(Floor(Div(ms, MS_PER_DAY))))}})

\* new Date(1899, 11, 30).getTime(): local midnight, for a zone tzMinutes east of UTC
ExcelEpoch(tzMinutes) ==
    Sub(Mul(Int2Num(DaysFromCivil(1899, 12, 30)), MS_PER_DAY),
        Mul(Int2Num(tzMinutes), MS_PER_MINUTE))

\* A faulty variant: a missing date is let through as an empty date.
validateDateOptional(dateStr0, tzMinutes) ==
    Only({IF IsBlank(dateStr) THEN Return(<<>>)
          ELSE Only({IF dateStr.t = "number"
                     THEN Only({IF date = NaN THEN Throw(PlainErr("Invalid date format"))
                                ELSE Return(ISODatePart(date)) :
                                date \in {TimeClip(Add(ExcelEpoch(tzMinutes),
                                                       Mul(dateStr.n, MS_PER_DAY)))}})
                     ELSE IF DateParse(str) = NaN
                     THEN Throw(PlainErr("Invalid date format"))
                     ELSE Return(str) :
                     str \in {Trim(Substring0(ToStr(dateStr), MAX_DATE_STRING_LENGTH))}}) :
          dateStr \in {dateStr0}})

validateDate(dateStr0, tzMinutes) ==
    Only({IF IsBlank(dateStr) THEN Throw(PlainErr("Date is required"))
          ELSE Only({IF dateStr.t = "number"
                     THEN Only({IF date = NaN THEN Throw(PlainErr("Invalid date format"))
                                ELSE Return(ISODatePart(date)) :
                                date \in {TimeClip(Add(ExcelEpoch(tzMinutes),
                                                       Mul(dateStr.n, MS_PER_DAY)))}})
                     ELSE IF DateParse(str) = NaN
                     THEN Throw(PlainErr("Invalid date format"))
                     ELSE Return(str) :
                     str \in {Trim(Substring0(ToStr(dateStr), MAX_DATE_STRING_LENGTH))}}) :
          dateStr \in {dateStr0}})

-----------------------------------------------------------------------------
(* parseExcelFile *)

Headers ==
    {"Date", "Month", "Revenue", "MRR", "Operating Expenses", "Expenses",
     "Customer Count", "Customers", "Churn Rate", "Churn",
     "Cash In", "Cash Out", "Cash Balance"}

\* The object literal of lines 136-145: its properties are evaluated in order
\* and the first validator that throws ends the evaluation.
ParseRow(row, tzMinutes) ==
    Only({IF ~date.ok THEN Throw(date.err)
          ELSE IF ~revenue.ok THEN Throw(revenue.err)
          ELSE IF ~operatingExpenses.ok THEN Throw(operatingExpenses.err)
          ELSE IF ~customerCount.ok THEN Throw(customerCount.err)
          ELSE IF ~churnRate.ok THEN Throw(churnRate.err)
          ELSE IF ~cashIn.ok THEN Throw(cashIn.err)
          ELSE IF ~cashOut.ok THEN Throw(cashOut.err)
          ELSE IF ~cashBalance.ok THEN Throw(cashBalance.err)
          ELSE Return([date |-> date.val,
                       revenue |-> revenue.val,
                       operatingExpenses |-> operatingExpenses.val,
                       customerCount |-> Floor(customerCount.val),
                       churnRate |-> churnRate.val,
                       cashIn |-> cashIn.val,
                       cashOut |-> cashOut.val,
                       cashBalance |-> cashBalance.val]) :
          date \in {validateDate(OrElse(row["Date"], row["Month"]), tzMinutes)},
          revenue \in {validatePositiveNumber(
              OrElse(OrElse(row["Revenue"], row["MRR"]), NumCell(Zero)), "Revenue")},
          operatingExpenses \in {validatePositiveNumber(
              OrElse(OrElse(row["Operating Expenses"], row["Expenses"]), NumCell(Zero)),
              "Operating Expenses")},
          customerCount \in {validatePositiveNumber(
              OrElse(OrElse(row["Customer Count"], row["Customers"]), NumCell(Zero)),
              "Customer Count")},
          churnRate \in {validatePercentage(
              OrElse(OrElse(row["Churn Rate"], row["Churn"]), NumCell(Zero)), "Churn Rate")},
          cashIn \in {validatePositiveNumber(OrElse(row["Cash In"], NumCell(Zero)), "Cash In")},
          cashOut \in {validatePositiveNumber(OrElse(row["Cash Out"], NumCell(Zero)), "Cash Out")},
          cashBalance \in {validateNumber(OrElse(row["Cash Balance"], NumCell(Zero)),
                                          "Cash Balance", MIN_NUMBER_VALUE, MAX_NUMBER_VALUE,
                                          TRUE)}})

\* What the handlers do to the promise: resolve(value) or reject(reason).
Resolve(value) == [call |-> "resolve", value |-> value, reason |-> PlainErr("")]
Reject(reason) == [call |-> "reject", value |-> <<>>, reason |-> reason]

\* A faulty variant: the header row is not counted.
RowNumberNoHeader(index) == index + 1

\* const rowNumber = index + 2, for the zero-based index of the code
RowNumber(index) == index + 2

\* new Error(`Row ${rowNumber}: ${errorMessage}`)
RowError(rowNumber, e) == [e EXCEPT !.row = rowNumber]

\* A faulty variant of the loop: a row whose body throws is skipped, and the
\* rows that validate are resolved.
ParseRowsSkipping(jsonData, tzMinutes) ==
    Only({Resolve([i \in 1..Len(kept) |-> kept[i].val]) :
          kept \in {SelectSeq([i \in 1..Len(jsonData) |-> ParseRow(jsonData[i], tzMinutes)],
                              LAMBDA r : r.ok)}})

\* The for loop of lines 131-153 and what follows it.  parsed[i] is what the
\* body does with row i (TLA+ sequences start at 1: row i has index i - 1); the
\* loop stops at the first row whose body throws.
ParseRows(jsonData, tzMinutes) ==
    Only({IF \E i \in 1..Len(jsonData) : ~parsed[i].ok
          THEN Only({Reject(RowError(RowNumber(first - 1), parsed[first].err)) :
                     first \in {CHOOSE i \in 1..Len(jsonData) :
                                   /\ ~parsed[i].ok
                                   /\ \A j \in 1..(i - 1) : parsed[j].ok}})
          ELSE Only({IF parsedData[1].date = <<>>
                     THEN Reject(PlainErr("Missing required column: Date or Month"))
                     ELSE Resolve(parsedData) :
                     parsedData \in {[i \in 1..Len(jsonData) |-> parsed[i].val]}}) :
          parsed \in {[i \in 1..Len(jsonData) |-> ParseRow(jsonData[i], tzMinutes)]}})

\* too many rows: `File contains too many rows (${jsonData.length}). Maximum
\* ${MAX_ROWS} rows allowed.`
TooManyRows(n) ==
    [PlainErr("File contains too many rows") EXCEPT !.count = n, !.limit = MAX_ROWS]

\* A faulty variant: a sheet of exactly MAX_ROWS rows is turned away.
ParseSheetStrict(jsonData, tzMinutes) ==
    IF Len(jsonData) = 0 THEN Reject(PlainErr("No data found in file"))
    ELSE IF Len(jsonData) >= MAX_ROWS THEN Reject(TooManyRows(Len(jsonData)))
    ELSE ParseRows(jsonData, tzMinutes)

\* The row-count checks of lines 117-126, then the rows.
ParseSheet(jsonData, tzMinutes) ==
    IF Len(jsonData) = 0 THEN Reject(PlainErr("No data found in file"))
    ELSE IF Len(jsonData) > MAX_ROWS THEN Reject(TooManyRows(Len(jsonData)))
    ELSE ParseRows(jsonData, tzMinutes)

\* reader.onload.  f.xlsx says what XLSX.read does with the bytes: it throws
\* ("throws"), yields a workbook without sheets ("nosheet") or yields a first
\* sheet whose rows sheet_to_json returns as f.rows ("sheet").
OnLoadHandler(f, tzMinutes) ==
    IF f.xlsx = "throws" THEN Reject(PlainErr("Failed to parse Excel file: "))
    ELSE IF f.xlsx = "nosheet" THEN Reject(PlainErr("No worksheets found in file"))
    ELSE ParseSheet(f.rows, tzMinutes)

\* A promise settles once: a later resolve or reject changes nothing.
Settle(p, c) ==
    IF p.state # "pending" THEN p
    ELSE [state |-> IF c.call = "resolve" THEN "resolved" ELSE "rejected",
          value |-> c.value, reason |-> c.reason]

Pending == [state |-> "pending", value |-> <<>>, reason |-> PlainErr("")]

\* The promise after the calls a handler has made, in order.
RECURSIVE SettleAll(_, _)
SettleAll(p, calls) ==
    IF calls = <<>> THEN p ELSE SettleAll(Settle(p, Head(calls)), Tail(calls))

\* A faulty variant: the catch block of the row loop does not return after its
\* reject, so the loop goes on and the rows that validate are resolved.
OnLoadCallsFallThrough(f, tzMinutes) ==
    Only({IF first.call = "reject" /\ first.reason.row > 0
          THEN <<first, ParseRowsSkipping(f.rows, tzMinutes)>>
          ELSE <<first>> :
          first \in {OnLoadHandler(f, tzMinutes)}})

\* The calls of resolve and reject that one run of reader.onload makes, in
\* order.  Every reject of the try block is followed by return, resolve is the
\* last statement of the try block, and nothing after a call throws into the
\* catch block, whose reject is then the only call.
OnLoadCalls(f, tzMinutes) == <<OnLoadHandler(f, tzMinutes)>>

\* The calls that one run of reader.onerror makes.
OnErrorCalls == <<Reject(PlainErr("Failed to read file"))>>

-----------------------------------------------------------------------------
(* calculateKPIs *)

\* new Date(a.date).getTime()
getTime(rec) == DateParse(rec.date)

\* The comparator of the sort, (a, b) => getTime(a) - getTime(b)
CompareByDate(a, b) == Sub(getTime(a), getTime(b))

\* Array.prototype.sort is stable: x goes before the first element that the
\* comparator puts strictly after it, behind every element it ties with.
RECURSIVE InsertSorted(_, _)
InsertSorted(sorted0, x) ==
    Only({IF sorted = <<>> THEN <<x>>
          ELSE IF Sign(CompareByDate(x, Head(sorted))) < 0 THEN <<x>> \o sorted
          ELSE <<Head(sorted)>> \o InsertSorted(Tail(sorted), x) :
          sorted \in {sorted0}})

RECURSIVE SortFrom(_, _, _)
SortFrom(arr, i0, sorted0) ==
    Only({IF i > Len(arr) THEN sorted
          ELSE SortFrom(arr, i + 1, InsertSorted(sorted, arr[i])) :
          i \in {i0}, sorted \in {sorted0}})

\* A faulty variant: the records are left in input order.
SortByDateNoSort(arr) == arr

\* [...data].sort(...): a sorted copy
SortByDate(arr) == SortFrom(arr, 1, <<>>)

\* A faulty variant: no guard on the previous value.
PctChangeUnguarded(cur0, prev0) ==
    Only({Mul(Div(Sub(cur, prev), prev), HUNDRED) : cur \in {cur0}, prev \in {prev0}})

\* A faulty variant: the guard is prev > 0, so a negative previous value counts as none.
PctChangePositiveOnly(cur0, prev0) ==
    Only({IF Gt(prev, Zero) THEN Mul(Div(Sub(cur, prev), prev), HUNDRED) ELSE Zero :
          cur \in {cur0}, prev \in {prev0}})

\* A faulty variant: the ratio of the values, not of their difference.
PctChangeRatio(cur0, prev0) ==
    Only({IF TruthyNum(prev) THEN Mul(Div(cur, prev), HUNDRED) ELSE Zero :
          cur \in {cur0}, prev \in {prev0}})

\* prev ? ((cur - prev) / prev) * 100 : 0
PctChange(cur0, prev0) ==
    Only({IF TruthyNum(prev) THEN Mul(Div(Sub(cur, prev), prev), HUNDRED) ELSE Zero :
          cur \in {cur0}, prev \in {prev0}})

\* customerCount > 0 ? operatingExpenses / customerCount : 0
Cac(rec) ==
    IF Gt(rec.customerCount, Zero) THEN Div(rec.operatingExpenses, rec.customerCount)
    ELSE Zero

\* cashOut - cashIn
NetBurn(rec) == Sub(rec.cashOut, rec.cashIn)

\* customerCount > 0 ? (revenue * 12 * 3) / customerCount : 0
Ltv(rec) ==
    IF Gt(rec.customerCount, Zero)
    THEN Div(Mul(Mul(rec.revenue, Int2Num(12)), Int2Num(3)), rec.customerCount)
    ELSE Zero

\* A faulty variant: the LTV is divided by the operating expenses, not by the
\* CAC.
LtvCacTotalExpenses(rec) ==
    IF Gt(Cac(rec), Zero) THEN Div(Ltv(rec), rec.operatingExpenses) ELSE Zero

\* cac > 0 ? ltv / cac : 0
LtvCac(rec) ==
    Only({IF Gt(cac, Zero) THEN Div(Ltv(rec), cac) ELSE Zero : cac \in {Cac(rec)}})

\* A faulty variant: the revenue is divided by the customer count unguarded.
ArpuUnguarded(rec) == Div(rec.revenue, rec.customerCount)

\* customerCount > 0 ? revenue / customerCount : 0
Arpu(rec) ==
    IF Gt(rec.customerCount, Zero) THEN Div(rec.revenue, rec.customerCount) ELSE Zero

\* sortedData.reduce((sum, d) => sum + (d.cashOut - d.cashIn), 0), from index i on
RECURSIVE ReduceBurn(_, _, _)
ReduceBurn(arr, i0, sum0) ==
    Only({IF i > Len(arr) THEN sum ELSE ReduceBurn(arr, i + 1, Add(sum, NetBurn(arr[i]))) :
          i \in {i0}, sum \in {sum0}})

\* A faulty variant: the burn of the current record alone.
AvgBurnRateCurrentOnly(sortedData) == NetBurn(sortedData[Len(sortedData)])

AvgBurnRate(sortedData) == Div(ReduceBurn(sortedData, 1, Zero), Int2Num(Len(sortedData)))

RUNWAY_SENTINEL == 999
DAYS_PER_MONTH == 30

\* A faulty variant: the quotient is capped at the sentinel.
RunwayMonthsClamped(sortedData, current) ==
    Only({IF Gt(avgBurnRate, Zero)
          THEN Only({IF Gt(months, Int2Num(RUNWAY_SENTINEL)) THEN Int2Num(RUNWAY_SENTINEL)
                     ELSE months :
                     months \in {Div(current.cashBalance, avgBurnRate)}})
          ELSE Int2Num(RUNWAY_SENTINEL) :
          avgBurnRate \in {AvgBurnRate(sortedData)}})

\* avgBurnRate > 0 ? current.cashBalance / avgBurnRate : 999
RunwayMonths(sortedData, current) ==
    Only({IF Gt(avgBurnRate, Zero) THEN Div(current.cashBalance, avgBurnRate)
          ELSE Int2Num(RUNWAY_SENTINEL) :
          avgBurnRate \in {AvgBurnRate(sortedData)}})

\* A faulty variant: the first record of the sorted copy.
CurrentFirst(sortedData) == sortedData[1]

\* sortedData[sortedData.length - 1]
Current(sortedData) == sortedData[Len(sortedData)]

\* sortedData.length > 1 ? sortedData[sortedData.length - 2] : current
Previous(sortedData) ==
    IF Len(sortedData) > 1 THEN sortedData[Len(sortedData) - 1]
    ELSE sortedData[Len(sortedData)]

\* Lines 188-238: the metrics, from the sorted copy and its last two records.
Metrics(sortedData, current, previous) ==
    Only({[mrr |-> current.revenue,
           mrrChange |-> PctChange(current.revenue, previous.revenue),
           cac |-> Cac(current),
           cacChange |-> PctChange(Cac(current), Cac(previous)),
           churnRate |-> current.churnRate,
           churnChange |-> PctChange(current.churnRate, previous.churnRate),
           burnRate |-> NetBurn(current),
           burnRateChange |-> PctChange(NetBurn(current), NetBurn(previous)),
           runway |-> Mul(runwayMonths, Int2Num(DAYS_PER_MONTH)),
           runwayMonths |-> runwayMonths,
           ltvCacRatio |-> LtvCac(current),
           ltvCacChange |-> PctChange(LtvCac(current), LtvCac(previous)),
           arpu |-> Arpu(current),
           arpuChange |-> PctChange(Arpu(current), Arpu(previous))] :
          runwayMonths \in {RunwayMonths(sortedData, current)}})

EmptyInputError == PlainErr("No data available for calculations")

\* A faulty variant: no check of the length.
IsEmptyInputNever(arr) == FALSE

\* data.length === 0
IsEmptyInput(arr) == Len(arr) = 0

\* A faulty variant: the argument itself is sorted, not a copy of it.
DataAfterSortInPlace(arr) == SortByDate(arr)

\* The argument array after the call: [...data] is a new array, sort reorders
\* that copy, and the records are only read.
DataAfter(arr) == arr

calculateKPIs(arr) ==
    IF IsEmptyInput(arr) THEN Throw(EmptyInputError)
    ELSE IF Len(arr) = 0
    THEN \* sortedData[-1] is undefined, and reading current.revenue throws
         Throw(PlainErr("TypeError: Cannot read properties of undefined"))
    ELSE Only({Return(Metrics(sortedData, Current(sortedData), Previous(sortedData))) :
               sortedData \in {SortByDate(arr)}})

-----------------------------------------------------------------------------
(* The inputs *)

MaxRows == 2       \* the longest sheet whose rows are drawn freely
MaxRecords == 3    \* the longest argument of calculateKPIs

D_2024_01_01 == <<"2", "0", "2", "4", "-", "0", "1", "-", "0", "1">>
D_2024_02_01 == <<"2", "0", "2", "4", "-", "0", "2", "-", "0", "1">>
D_2024_03_01 == <<"2", "0", "2", "4", "-", "0", "3", "-", "0", "1">>
D_2024_04_01 == <<"2", "0", "2", "4", "-", "0", "4", "-", "0", "1">>
D_2024_01 == <<"2", "0", "2", "4", "-", "0", "1">>

\* A row object: the headers it lacks read as undefined.
Row(cells) == [h \in Headers |-> IF h \in DOMAIN cells THEN cells[h] ELSE Undefined]

N(i) == NumCell(Int2Num(i))

\* the first row of the template
RowJan ==
    Row("Date" :> StrCell(D_2024_01_01) @@ "Revenue" :> N(50000)
        @@ "Operating Expenses" :> N(30000) @@ "Customer Count" :> N(100)
        @@ "Churn Rate" :> N(5) @@ "Cash In" :> N(55000) @@ "Cash Out" :> N(35000)
        @@ "Cash Balance" :> N(200000))

\* the second aliases, a serial date, a numeric string, a fraction, both bounds
RowFebAlias ==
    Row("Month" :> N(45323) @@ "MRR" :> StrCell(<<"5", "5", "0", "0", "0">>)
        @@ "Expenses" :> N(32000) @@ "Customers" :> NumCell(<<221, 2, 0>>)
        @@ "Churn" :> NumCell(<<9, 2, 0>>) @@ "Cash In" :> NumCell(MAX_NUMBER_VALUE)
        @@ "Cash Balance" :> NumCell(MIN_NUMBER_VALUE))

\* Revenue = "abc", and a later field of the row is wrong too
RowBadRevenue ==
    Row("Date" :> StrCell(D_2024_01_01) @@ "Revenue" :> StrCell(<<"a", "b", "c">>)
        @@ "Churn Rate" :> N(101))

\* no date at all, and a negative revenue
RowNoDate == Row("Revenue" :> N(-5) @@ "Customer Count" :> N(3))

RowBadDate ==
    Row("Date" :> StrCell(<<"a", "b", "c">>) @@ "Revenue" :> N(1000)
        @@ "Cash Out" :> N(-1))

RowChurnHigh ==
    Row("Date" :> StrCell(D_2024_02_01) @@ "Revenue" :> N(1000)
        @@ "Churn Rate" :> NumCell(<<1001, 10, 0>>))

RowBalanceHigh ==
    Row("Date" :> StrCell(D_2024_03_01) @@ "Cash Balance" :> NumCell(<<11, 1, 11>>))

\* a Revenue of 0 beside an MRR, a blank Date beside a padded Month, "12abc"
RowZeroRevenue ==
    Row("Date" :> StrCell(<<>>)
        @@ "Month" :> StrCell(<<" ">> \o D_2024_02_01 \o <<" ">>)
        @@ "Revenue" :> N(0) @@ "MRR" :> N(500)
        @@ "Customer Count" :> StrCell(<<"1", "2", "a", "b", "c">>)
        @@ "Churn Rate" :> N(100))

\* a date and nothing else
RowDateOnly == Row("Date" :> StrCell(D_2024_01))

RowNegativeCustomers ==
    Row("Date" :> StrCell(D_2024_03_01) @@ "Customers" :> N(-1)
        @@ "Cash Balance" :> N(-5000))

Rows ==
    {RowJan, RowFebAlias, RowBadRevenue, RowNoDate, RowBadDate, RowChurnHigh,
     RowBalanceHigh, RowZeroRevenue, RowDateOnly, RowNegativeCustomers}

SmallSheets == UNION {[1..n -> Rows] : n \in 0..MaxRows}

\* Sheets at the row limit: full of valid rows, one row over, one row over with
\* invalid rows, and at the limit with an invalid last row.
BigSheets ==
    {[i \in 1..MAX_ROWS |-> RowJan],
     [i \in 1..(MAX_ROWS + 1) |-> RowJan],
     [i \in 1..(MAX_ROWS + 1) |-> RowBadRevenue],
     [i \in 1..MAX_ROWS |-> IF i = MAX_ROWS THEN RowBadDate ELSE RowJan]}

File(readable, xlsx, rows) == [readable |-> readable, xlsx |-> xlsx, rows |-> rows]

SmallFiles ==
    {File(FALSE, "sheet", <<>>), File(TRUE, "throws", <<>>), File(TRUE, "nosheet", <<>>)}
    \cup {File(TRUE, "sheet", rows) : rows \in SmallSheets}

BigFiles == {File(TRUE, "sheet", rows) : rows \in BigSheets}

TimeZones == {-300, 0, 120}

Rec(date, revenue, operatingExpenses, customerCount, churnRate, cashIn, cashOut, cashBalance) ==
    [date |-> date, revenue |-> revenue, operatingExpenses |-> operatingExpenses,
     customerCount |-> customerCount, churnRate |-> churnRate, cashIn |-> cashIn,
     cashOut |-> cashOut, cashBalance |-> cashBalance]

I(i) == Int2Num(i)

\* the first two rows of the template
RecJan == Rec(D_2024_01_01, I(50000), I(30000), I(100), I(5), I(55000), I(35000), I(200000))
RecFeb ==
    Rec(D_2024_02_01, I(55000), I(32000), I(110), <<9, 2, 0>>, I(60000), I(37000), I(223000))
\* a second record of 2024-02-01: burning cash, overdrawn
RecFebBurn ==
    Rec(D_2024_02_01, I(60000), I(35000), I(120), I(4), I(40000), I(65000), I(-5000))
\* all zero
RecMarZero == Rec(D_2024_03_01, I(0), I(0), I(0), I(0), I(0), I(0), I(0))
\* the instant of RecJan written as a year and a month; a burn of 1 a month
RecJanSlow == Rec(D_2024_01, I(1000), I(0), I(10), I(0), I(0), I(1), I(200000))
\* customers but no revenue, a burn that makes the average of two records 0
RecMarNoRevenue == Rec(D_2024_03_01, I(0), I(500), I(20), I(2), I(25000), I(0), I(1000))

\* revenue and expenses but no customer
RecAprNoCustomers == Rec(D_2024_04_01, I(40000), I(20000), I(0), I(3), I(40000), I(20000), I(50000))

Records ==
    {RecJan, RecFeb, RecFebBurn, RecMarZero, RecJanSlow, RecMarNoRevenue, RecAprNoCustomers}

RecordSeqs == UNION {[1..n -> Records] : n \in 0..MaxRecords}

-----------------------------------------------------------------------------
(* The state machine of parseExcelFile: the caller has read no result yet, the *)
(* reader is reading the file, and one of its two events fires.               *)

NoFile == File(FALSE, "sheet", <<>>)

\* No value is under validation.
NoValidation == [input |-> Undefined, policy |-> "none", outcomes |-> <<>>]

\* No handler of a page has run.
NoEffects == [handler |-> "", log |-> <<>>]

\* No page is shown: the functions of excel-utils are called on their own.
NoPages ==
    /\ selected = <<>>
    /\ uploading = FALSE
    /\ success = FALSE
    /\ pc = "idle"
    /\ timers = 0
    /\ fileError = <<>>
    /\ effects = NoEffects
    /\ storage = <<>>
    /\ location = ""
    /\ mounted = FALSE
    /\ chart = <<>>
    /\ cashZero = <<>>

\* The sheets at the row limit are read in one time zone: their rows hold no
\* serial date.
Init ==
    /\ \/ file \in SmallFiles /\ tz \in TimeZones
       \/ file \in BigFiles /\ tz = 0
    /\ reader = "reading"
    /\ promise = Pending
    /\ settled = 0
    /\ data = <<>>
    /\ kpis = <<>>
    /\ validation = NoValidation
    /\ NoPages

\* reader.onload = (e) => { ... }
ReaderOnLoad ==
    /\ reader = "reading"
    /\ file.readable
    /\ reader' = "done"
    /\ \E calls \in {OnLoadCalls(file, tz)} :
          /\ promise' = SettleAll(promise, calls)
          /\ settled' = settled + Len(calls)
    /\ UNCHANGED <<file, tz, data, kpis, validation>>
    /\ UNCHANGED <<uploadVars, effects, storage, location, dashboardVars>>

\* reader.onerror = () => { reject(new Error('Failed to read file')) }
ReaderOnError ==
    /\ reader = "reading"
    /\ ~file.readable
    /\ reader' = "done"
    /\ promise' = SettleAll(promise, OnErrorCalls)
    /\ settled' = settled + Len(OnErrorCalls)
    /\ UNCHANGED <<file, tz, data, kpis, validation>>
    /\ UNCHANGED <<uploadVars, effects, storage, location, dashboardVars>>

Next == ReaderOnLoad \/ ReaderOnError

Spec == Init /\ [][Next]_vars

-----------------------------------------------------------------------------
(* calculateKPIs applied to every sequence of records up to MaxRecords *)

InitKPI ==
    /\ file = NoFile
    /\ tz = 0
    /\ reader = "done"
    /\ promise = Pending
    /\ settled = 0
    /\ data \in RecordSeqs
    /\ kpis = <<>>
    /\ validation = NoValidation
    /\ NoPages

\* const metrics = calculateKPIs(data)
CalculateKPIs ==
    /\ kpis = <<>>
    /\ kpis' = <<calculateKPIs(data)>>
    /\ data' = DataAfter(data)
    /\ UNCHANGED <<file, tz, reader, promise, settled, validation>>
    /\ UNCHANGED <<uploadVars, effects, storage, location, dashboardVars>>

NextKPI == CalculateKPIs

SpecKPI == InitKPI /\ [][NextKPI]_vars

-----------------------------------------------------------------------------
(* The validators applied to a cell, and again to the value they returned *)

MaxValidations == 3    \* the most calls made on one cell and its results

\* the cells handed to a validator
ValidatorInputs ==
    {Undefined, StrCell(<<>>), BoolCell(TRUE),
     StrCell(<<"a", "b", "c">>),
     StrCell(<<"1", "2", "a", "b", "c">>),
     StrCell(<<" ", "4", "2", " ">>),
     StrCell(<<"5", "5", "0", "0", "0">>),
     StrCell(<<"1", "e", "-", "7">>),
     StrCell(<<"1", ".", "5", "e", "-", "7">>),
     StrCell(<<"-", "0", ".", "5">>),
     StrCell(<<".", "5">>),
     StrCell(<<"4", ".", "5", "0">>),
     StrCell(<<"1", "e", "1", "2">>),
     StrCell(<<"1", "e", "1", "3">>),
     StrCell(<<"1", "0", "0", ".", "0", "1">>),
     StrCell(<<"-">> \o InfinityWord),
     NumCell(Zero), NumCell(HUNDRED), NumCell(Int2Num(101)), NumCell(Int2Num(-1)),
     NumCell(Int2Num(1234567)), NumCell(<<9, 2, 0>>), NumCell(<<1, 10000000, 0>>),
     NumCell(<<-12345, 8, 0>>), NumCell(MAX_NUMBER_VALUE), NumCell(MIN_NUMBER_VALUE),
     NumCell(NaN), NumCell(PosInf)}

\* validateNumber with its defaults, validateNumber with allowZero = false,
\* validatePositiveNumber and validatePercentage
Policies == {"number", "required", "positive", "percentage"}

ApplyPolicy(policy, val) ==
    CASE policy = "number" ->
            validateNumber(val, "Value", MIN_NUMBER_VALUE, MAX_NUMBER_VALUE, TRUE)
      [] policy = "required" ->
            validateNumber(val, "Value", MIN_NUMBER_VALUE, MAX_NUMBER_VALUE, FALSE)
      [] policy = "positive" -> validatePositiveNumber(val, "Value")
      [] policy = "percentage" -> validatePercentage(val, "Value")

InitValidate ==
    /\ file = NoFile
    /\ tz = 0
    /\ reader = "done"
    /\ promise = Pending
    /\ settled = 0
    /\ data = <<>>
    /\ kpis = <<>>
    /\ validation \in [input : ValidatorInputs, policy : Policies, outcomes : {<<>>}]
    /\ NoPages

\* validate(val)
Validate ==
    /\ validation.policy # "none"
    /\ validation.outcomes = <<>>
    /\ validation' =
          [validation EXCEPT !.outcomes = <<ApplyPolicy(validation.policy, validation.input)>>]
    /\ UNCHANGED <<file, tz, reader, promise, settled, data, kpis>>
    /\ UNCHANGED <<uploadVars, effects, storage, location, dashboardVars>>

\* validate(r), for r the number the last call returned
Revalidate ==
    /\ validation.outcomes # <<>>
    /\ Len(validation.outcomes) < MaxValidations
    /\ validation.outcomes[Len(validation.outcomes)].ok
    /\ validation' =
          [validation EXCEPT !.outcomes =
              Append(@, ApplyPolicy(validation.policy,
                                    NumCell(@[Len(@)].val)))]
    /\ UNCHANGED <<file, tz, reader, promise, settled, data, kpis>>
    /\ UNCHANGED <<uploadVars, effects, storage, location, dashboardVars>>

NextValidate == Validate \/ Revalidate

SpecValidate == InitValidate /\ [][NextValidate]_vars

-----------------------------------------------------------------------------
(* Properties of calculateKPIs, checked under SpecKPI *)

Called == kpis # <<>>
Result == kpis[1]

Injections(n) == {p \in [1..n -> 1..n] : \A i, j \in 1..n : p[i] = p[j] => i = j}
Reorderings(seq) == {[i \in 1..Len(seq) |-> seq[p[i]]] : p \in Injections(Len(seq))}

\* No two records of the sequence have dates that denote the same instant.
DistinctInstants(seq) ==
    \A i, j \in 1..Len(seq) : i # j => getTime(seq[i]) # getTime(seq[j])

\* The index of the record that is last in date order: the latest instant, and
\* among the records of that instant the last of the input.
LatestIndex(seq) ==
    CHOOSE i \in 1..Len(seq) :
        \A j \in 1..Len(seq) :
            \/ Lt(getTime(seq[j]), getTime(seq[i]))
            \/ getTime(seq[j]) = getTime(seq[i]) /\ j <= i

Without(seq, k) == [i \in 1..(Len(seq) - 1) |-> IF i < k THEN seq[i] ELSE seq[i + 1]]

Latest(seq) == seq[LatestIndex(seq)]
SecondLatest(seq) == Latest(Without(seq, LatestIndex(seq)))

\* C1 as stated: for every record sequence of length >= 2 and every permutation
\* of it, calculateKPIs returns the same KPIMetrics for the permutation as for
\* the sequence.
C1_AnyPermutation ==
    (Called /\ Len(data) >= 2) =>
        \A q \in Reorderings(data) : calculateKPIs(q) = Result

\* C1, amended: for every record sequence of length >= 2 whose dates denote
\* pairwise distinct instants, and every permutation of it, calculateKPIs
\* returns the same KPIMetrics for the permutation as for the sequence.
C1_PermutationDistinctDates ==
    (Called /\ Len(data) >= 2 /\ DistinctInstants(data)) =>
        \A q \in Reorderings(data) : calculateKPIs(q) = Result

\* calculateKPIs has been applied to three records of distinct dates given
\* latest first.
C1_Witness ==
    /\ Called /\ Len(data) = 3 /\ DistinctInstants(data)
    /\ Lt(getTime(data[3]), getTime(data[2]))
    /\ Lt(getTime(data[2]), getTime(data[1]))
    /\ Result.ok

\* C4: calculateKPIs called with an empty record sequence fails with the
\* empty-input error 'No data available for calculations' and produces no
\* KPIMetrics.
C4_EmptyInputError ==
    (Called /\ data = <<>>) =>
        /\ ~Result.ok
        /\ Result.err.text = "No data available for calculations"
        /\ Result.val = <<>>

C4_Witness == Called /\ data = <<>> /\ ~Result.ok

KPIFields ==
    {"mrr", "mrrChange", "cac", "cacChange", "churnRate", "churnChange", "burnRate",
     "burnRateChange", "runway", "runwayMonths", "ltvCacRatio", "ltvCacChange",
     "arpu", "arpuChange"}

ChangeFields ==
    {"mrrChange", "cacChange", "churnChange", "burnRateChange", "ltvCacChange",
     "arpuChange"}

\* C5: for every non-empty sequence of records within the data-model ranges,
\* calculateKPIs returns a KPIMetrics and every field of it is a finite number:
\* none is the Infinity or NaN of a division by zero.
C5_NoDivisionByZero ==
    (Called /\ data # <<>>) =>
        /\ Result.ok
        /\ DOMAIN Result.val = KPIFields
        /\ \A f \in KPIFields : IsFiniteNum(Result.val[f])

\* Every guard meets its zero at once: the previous record has no revenue, no
\* customers, no churn and no burn, the current one no customers, and the
\* average burn is 0.
C5_Witness ==
    /\ Called /\ Len(data) >= 2 /\ Result.ok
    /\ SecondLatest(data).revenue = Zero
    /\ SecondLatest(data).customerCount = Zero
    /\ SecondLatest(data).churnRate = Zero
    /\ NetBurn(SecondLatest(data)) = Zero
    /\ Latest(data).customerCount = Zero

\* The mean of cashOut - cashIn over the records of seq, in input order.
RECURSIVE SumOfBurn(_, _)
SumOfBurn(seq, n) ==
    IF n = 0 THEN Zero
    ELSE Add(SumOfBurn(seq, n - 1), Sub(seq[n].cashOut, seq[n].cashIn))

MeanBurn(seq) == Div(SumOfBurn(seq, Len(seq)), Int2Num(Len(seq)))

\* C8: with avg the mean of cashOut - cashIn over all records of the input: if
\* avg <= 0 then runwayMonths = 999 and runway = 29970; otherwise runwayMonths =
\* current.cashBalance / avg and runway = runwayMonths * 30, current being the
\* last record in date order.
C8_Runway ==
    (Called /\ data # <<>>) =>
        IF Gt(MeanBurn(data), Zero)
        THEN /\ Result.val.runwayMonths = Div(Latest(data).cashBalance, MeanBurn(data))
             /\ Result.val.runway = Mul(Result.val.runwayMonths, Int2Num(30))
        ELSE /\ Result.val.runwayMonths = Int2Num(999)
             /\ Result.val.runway = Int2Num(29970)

\* The average burn is positive although the current record burns nothing.
C8_Witness ==
    /\ Called /\ Len(data) >= 2
    /\ Gt(MeanBurn(data), Zero)
    /\ ~Gt(Sub(Latest(data).cashOut, Latest(data).cashIn), Zero)
    /\ Result.val.runwayMonths # Int2Num(999)

\* The metric formulas of the specification, zero-guarded.
RefRatio(num, den) == IF den = Zero THEN Zero ELSE Div(num, den)
RefCac(r) == RefRatio(r.operatingExpenses, r.customerCount)
RefArpu(r) == RefRatio(r.revenue, r.customerCount)
RefLtv(r) == RefRatio(Mul(r.revenue, Int2Num(36)), r.customerCount)
RefLtvCac(r) == RefRatio(RefLtv(r), RefCac(r))
RefBurn(r) == Sub(r.cashOut, r.cashIn)
RefChange(cur, prev) ==
    IF prev = Zero THEN Zero ELSE Mul(Div(Sub(cur, prev), prev), Int2Num(100))

\* C9: for MRR, CAC, churn rate, burn rate, LTV/CAC and ARPU the month-over-month
\* change is (cur - prev) / prev * 100 when prev is non-zero and 0 when prev is
\* 0, prev being the metric of the second-to-last record in date order.
C9_Changes ==
    (Called /\ Len(data) >= 2) =>
        LET cur == Latest(data)
            prev == SecondLatest(data)
        IN  /\ Result.val.mrrChange = RefChange(cur.revenue, prev.revenue)
            /\ Result.val.cacChange = RefChange(RefCac(cur), RefCac(prev))
            /\ Result.val.churnChange = RefChange(cur.churnRate, prev.churnRate)
            /\ Result.val.burnRateChange = RefChange(RefBurn(cur), RefBurn(prev))
            /\ Result.val.ltvCacChange = RefChange(RefLtvCac(cur), RefLtvCac(prev))
            /\ Result.val.arpuChange = RefChange(RefArpu(cur), RefArpu(prev))

\* The previous burn rate is negative and the burn rate has changed.
C9_Witness ==
    /\ Called /\ Len(data) >= 2
    /\ Lt(RefBurn(SecondLatest(data)), Zero)
    /\ Result.val.burnRateChange # Zero
    /\ Result.val.cacChange # Zero
    /\ Result.val.ltvCacChange # Zero

\* C10: for every single-record sequence every change field of the result is 0.
C10_SingleRecordChanges ==
    (Called /\ Len(data) = 1) =>
        /\ Result.ok
        /\ \A f \in ChangeFields : Result.val[f] = Zero

\* A single record none of whose metrics is 0.
C10_Witness ==
    /\ Called /\ Len(data) = 1 /\ Result.ok
    /\ \A f \in {"mrr", "cac", "churnRate", "burnRate", "ltvCacRatio", "arpu"} :
           Result.val[f] # Zero

-----------------------------------------------------------------------------
(* Properties of parseExcelFile, checked under Spec *)

\* The load handler has run on a first sheet that XLSX decoded.
SheetParsed == reader = "done" /\ file.readable /\ file.xlsx = "sheet"

NumberOfRows == Len(file.rows)

\* The fields of a record in the order in which a row's cells are validated.
FieldOrder ==
    <<"date", "revenue", "operatingExpenses", "customerCount", "churnRate",
      "cashIn", "cashOut", "cashBalance">>

\* What the validation of one field of a row does, taken alone.
FieldOutcome(row, field) ==
    LET zero == NumCell(Zero)
    IN  CASE field = "date" -> validateDate(OrElse(row["Date"], row["Month"]), tz)
          [] field = "revenue" ->
                validatePositiveNumber(OrElse(OrElse(row["Revenue"], row["MRR"]), zero),
                                       "Revenue")
          [] field = "operatingExpenses" ->
                validatePositiveNumber(
                    OrElse(OrElse(row["Operating Expenses"], row["Expenses"]), zero),
                    "Operating Expenses")
          [] field = "customerCount" ->
                validatePositiveNumber(
                    OrElse(OrElse(row["Customer Count"], row["Customers"]), zero),
                    "Customer Count")
          [] field = "churnRate" ->
                validatePercentage(OrElse(OrElse(row["Churn Rate"], row["Churn"]), zero),
                                   "Churn Rate")
          [] field = "cashIn" -> validatePositiveNumber(OrElse(row["Cash In"], zero), "Cash In")
          [] field = "cashOut" ->
                validatePositiveNumber(OrElse(row["Cash Out"], zero), "Cash Out")
          [] field = "cashBalance" ->
                validateNumber(OrElse(row["Cash Balance"], zero), "Cash Balance",
                               MIN_NUMBER_VALUE, MAX_NUMBER_VALUE, TRUE)

FailingFields(row) == {k \in 1..Len(FieldOrder) : ~FieldOutcome(row, FieldOrder[k]).ok}
FailingRows == {i \in 1..NumberOfRows : FailingFields(file.rows[i]) # {}}
Least(S) == CHOOSE x \in S : \A y \in S : x <= y

\* C2: parseExcelFile either resolves with exactly one validated record per data
\* row, in row order, or rejects with a single error and delivers no record; it
\* never resolves with a subset of the rows.
C2_AllOrNothing ==
    /\ promise.state = "resolved" =>
          /\ SheetParsed
          /\ Len(promise.value) = NumberOfRows
          /\ \A i \in 1..NumberOfRows :
                /\ ParseRow(file.rows[i], tz).ok
                /\ promise.value[i] = ParseRow(file.rows[i], tz).val
    /\ promise.state = "rejected" =>
          /\ promise.value = <<>>
          /\ promise.reason.text # ""
    /\ reader = "done" => promise.state \in {"resolved", "rejected"} /\ settled = 1

\* A parse fails on its second row after its first row validated.
C2_Witness ==
    /\ SheetParsed /\ NumberOfRows = 2
    /\ ParseRow(file.rows[1], tz).ok
    /\ ~ParseRow(file.rows[2], tz).ok
    /\ promise.state = "rejected"

InRange(x, lo, hi) == IsFiniteNum(x) /\ ~Lt(x, lo) /\ ~Gt(x, hi)
IsInteger(x) == IsFiniteNum(x) /\ x[2] = 1

\* The data-model invariant of a FinancialPeriodRecord.
DataModelInvariant(r) ==
    /\ InRange(r.revenue, Zero, <<1, 1, 12>>)
    /\ InRange(r.operatingExpenses, Zero, <<1, 1, 12>>)
    /\ InRange(r.cashIn, Zero, <<1, 1, 12>>)
    /\ InRange(r.cashOut, Zero, <<1, 1, 12>>)
    /\ InRange(r.customerCount, Zero, <<1, 1, 12>>) /\ IsInteger(r.customerCount)
    /\ InRange(r.churnRate, Zero, <<1, 1, 2>>)
    /\ InRange(r.cashBalance, <<-1, 1, 12>>, <<1, 1, 12>>)
    /\ r.date # <<>>
    /\ DateParse(r.date) # NaN

\* C3: every record of a sequence resolved by parseExcelFile satisfies the
\* data-model invariant: the amounts in [0, 10^12], customerCount a non-negative
\* integer <= 10^12, churnRate in [0, 100], cashBalance in [-10^12, 10^12], date
\* a non-empty value that parses to a calendar date.
C3_ResolvedRecordsValid ==
    promise.state = "resolved" =>
        \A i \in 1..Len(promise.value) : DataModelInvariant(promise.value[i])

\* A resolved record at both bounds, its date from a serial number, its
\* customer count rounded down from a fraction.
C3_Witness ==
    /\ promise.state = "resolved"
    /\ \E i \in 1..Len(promise.value) :
          /\ promise.value[i].cashIn = <<1, 1, 12>>
          /\ promise.value[i].cashBalance = <<-1, 1, 12>>
          /\ promise.value[i].customerCount = Int2Num(110)
          /\ file.rows[i]["Month"].t = "number"

\* C6: when rows fail validation, parseExcelFile rejects with the error of the
\* lowest-index failing row only, prefixed 'Row N' with N = zero-based index + 2,
\* and of the first failing field of that row in the order date, revenue,
\* operating expenses, customer count, churn rate, cash in, cash out, cash
\* balance.
C6_FirstFailureOnly ==
    (SheetParsed /\ NumberOfRows >= 1 /\ NumberOfRows <= 1000 /\ FailingRows # {}) =>
        LET i == Least(FailingRows)
            k == Least(FailingFields(file.rows[i]))
        IN  /\ promise.state = "rejected"
            /\ promise.reason.row = (i - 1) + 2
            /\ [promise.reason EXCEPT !.row = 0]
                   = FieldOutcome(file.rows[i], FieldOrder[k]).err

\* Both rows of a sheet fail, the first one in two fields.
C6_Witness ==
    /\ SheetParsed /\ NumberOfRows = 2
    /\ FailingRows = {1, 2}
    /\ Cardinality(FailingFields(file.rows[1])) >= 2
    /\ Least(FailingFields(file.rows[1])) >= 2
    /\ promise.reason.row = 2

\* C7: a sheet with 0 data rows is rejected as empty; a sheet with more than
\* 1000 rows is rejected with an error naming the row count and the limit 1000,
\* before any row is validated; a sheet with 1 to 1000 rows passes the gate.
C7_RowCountGate ==
    SheetParsed =>
        /\ NumberOfRows = 0 =>
              promise.state = "rejected" /\ promise.reason = PlainErr("No data found in file")
        /\ NumberOfRows > 1000 =>
              /\ promise.state = "rejected"
              /\ promise.reason.text = "File contains too many rows"
              /\ promise.reason.count = NumberOfRows
              /\ promise.reason.limit = 1000
              /\ promise.reason.row = 0
        /\ (NumberOfRows >= 1 /\ NumberOfRows <= 1000) =>
              \/ promise.state = "resolved"
              \/ promise.state = "rejected" /\ promise.reason.row >= 2

\* A sheet of 1001 rows that would each fail validation is turned away for its
\* row count.
C7_Witness ==
    /\ SheetParsed /\ NumberOfRows = 1001
    /\ ~ParseRow(file.rows[1], tz).ok
    /\ promise.reason.count = 1001

-----------------------------------------------------------------------------
(* Further properties of calculateKPIs, checked under SpecKPI *)

\* C11: if the current (latest-dated) record has customerCount = 0, then
\* calculateKPIs returns cac = 0, arpu = 0 and ltvCacRatio = 0, whatever its
\* revenue and operating expenses.
C11_NoCustomers ==
    (Called /\ data # <<>> /\ Latest(data).customerCount = Zero) =>
        /\ Result.ok
        /\ Result.val.cac = Zero
        /\ Result.val.arpu = Zero
        /\ Result.val.ltvCacRatio = Zero

\* The current record has revenue and expenses but no customer, and the record
\* before it has customers.
C11_Witness ==
    /\ Called /\ Len(data) >= 2 /\ Result.ok
    /\ Latest(data).customerCount = Zero
    /\ Gt(Latest(data).revenue, Zero)
    /\ Gt(Latest(data).operatingExpenses, Zero)
    /\ Gt(SecondLatest(data).customerCount, Zero)

\* C12: for every non-empty sequence the current-value fields are the reference
\* formulas applied to the latest-dated record: mrr = revenue, churnRate passed
\* through, burnRate = cashOut - cashIn, cac = operatingExpenses / customerCount,
\* arpu = revenue / customerCount, ltvCacRatio = ((revenue * 36) / customerCount)
\* / cac, each 0 when its divisor is 0. The January/February scenario yields mrr
\* 55000, mrrChange 10, cac 32000/110, churnRate 4.5, burnRate -23000, arpu 500.
C12_CurrentValues ==
    (Called /\ data # <<>>) =>
        LET cur == Latest(data)
        IN  /\ Result.ok
            /\ Result.val.mrr = cur.revenue
            /\ Result.val.churnRate = cur.churnRate
            /\ Result.val.burnRate = RefBurn(cur)
            /\ Result.val.cac = RefCac(cur)
            /\ Result.val.arpu = RefArpu(cur)
            /\ Result.val.ltvCacRatio = RefLtvCac(cur)
            /\ data \in {<<RecJan, RecFeb>>, <<RecFeb, RecJan>>} =>
                  /\ Result.val.mrr = Int2Num(55000)
                  /\ Result.val.mrrChange = Int2Num(10)
                  /\ Result.val.cac = <<3200, 11, 0>>
                  /\ Result.val.churnRate = <<9, 2, 0>>
                  /\ Result.val.burnRate = Int2Num(-23000)
                  /\ Result.val.arpu = Int2Num(500)

\* The scenario's records arrive latest first.
C12_Witness ==
    /\ Called /\ data = <<RecFeb, RecJan>>
    /\ Result.ok
    /\ Result.val.mrr = Int2Num(55000)

C20_SentinelIsNoClamp ==
    (Called /\ data # <<>>) =>
        /\ Gt(Result.val.runwayMonths, Int2Num(999))
              <=> /\ Gt(MeanBurn(data), Zero)
                  /\ Gt(Latest(data).cashBalance, Mul(Int2Num(999), MeanBurn(data)))
        /\ Gt(Result.val.runway, Int2Num(29970))
              <=> Gt(Result.val.runwayMonths, Int2Num(999))

\* A balance of 200000 against an average burn of 1 a month.
C20_Witness ==
    /\ Called /\ data # <<>> /\ Result.ok
    /\ Gt(Result.val.runwayMonths, Int2Num(999))

\* C20 as stated: for every non-empty sequence of valid records runwayMonths
\* never exceeds 999 and runway never exceeds 29970.
C20_RunwayClamp ==
    (Called /\ data # <<>>) =>
        /\ ~Gt(Result.val.runwayMonths, Int2Num(999))
        /\ ~Gt(Result.val.runway, Int2Num(29970))

-----------------------------------------------------------------------------
(* Further properties of parseExcelFile, checked under Spec *)

\* The fields that have two accepted headers, first-listed and second.
AliasFields == {"date", "revenue", "operatingExpenses", "customerCount", "churnRate"}

FirstListed(field) ==
    CASE field = "date" -> "Date"
      [] field = "revenue" -> "Revenue"
      [] field = "operatingExpenses" -> "Operating Expenses"
      [] field = "customerCount" -> "Customer Count"
      [] field = "churnRate" -> "Churn Rate"

SecondListed(field) ==
    CASE field = "date" -> "Month"
      [] field = "revenue" -> "MRR"
      [] field = "operatingExpenses" -> "Expenses"
      [] field = "customerCount" -> "Customers"
      [] field = "churnRate" -> "Churn"

\* The row has the column: the cell exists and is not an empty string.
HasColumn(row, header) ==
    row[header].t # "undefined" /\ ~(row[header].t = "string" /\ row[header].s = <<>>)

\* The value a field gets when it is read from the given cell alone.
ValueFrom(field, cell) ==
    CASE field = "date" -> validateDate(cell, tz).val
      [] field = "revenue" -> validatePositiveNumber(cell, "Revenue").val
      [] field = "operatingExpenses" -> validatePositiveNumber(cell, "Operating Expenses").val
      [] field = "customerCount" -> Floor(validatePositiveNumber(cell, "Customer Count").val)
      [] field = "churnRate" -> validatePercentage(cell, "Churn Rate").val

\* C13: column resolution consults each field's alias list in priority order:
\* when a row contains the first-listed header (Date, Revenue, Operating Expenses,
\* Customer Count, Churn Rate) the field's value is taken from that column, and
\* the second alias (Month, MRR, Expenses, Customers, Churn) is used only when
\* the first-listed column is absent from the row.
C13_AliasPriority ==
    promise.state = "resolved" =>
        \A i \in 1..Len(promise.value) : \A field \in AliasFields :
            LET row == file.rows[i]
            IN  /\ HasColumn(row, FirstListed(field)) =>
                      promise.value[i][field] = ValueFrom(field, row[FirstListed(field)])
                /\ (~HasColumn(row, FirstListed(field))
                        /\ HasColumn(row, SecondListed(field))) =>
                      promise.value[i][field] = ValueFrom(field, row[SecondListed(field)])

\* The numeric fields, the headers each is read from and the name it has in
\* error messages.
NumericFields ==
    {"revenue", "operatingExpenses", "customerCount", "churnRate", "cashIn", "cashOut",
     "cashBalance"}

NumericHeaders(field) ==
    CASE field = "revenue" -> {"Revenue", "MRR"}
      [] field = "operatingExpenses" -> {"Operating Expenses", "Expenses"}
      [] field = "customerCount" -> {"Customer Count", "Customers"}
      [] field = "churnRate" -> {"Churn Rate", "Churn"}
      [] field = "cashIn" -> {"Cash In"}
      [] field = "cashOut" -> {"Cash Out"}
      [] field = "cashBalance" -> {"Cash Balance"}

FieldLabel(field) ==
    CASE field = "revenue" -> "Revenue"
      [] field = "operatingExpenses" -> "Operating Expenses"
      [] field = "customerCount" -> "Customer Count"
      [] field = "churnRate" -> "Churn Rate"
      [] field = "cashIn" -> "Cash In"
      [] field = "cashOut" -> "Cash Out"
      [] field = "cashBalance" -> "Cash Balance"

\* Every one of the headers is missing from the row or blank in it.
MissingOrBlank(row, headers) == \A h \in headers : ~HasColumn(row, h)

ResolvedCell(row, field) ==
    CASE field = "revenue" -> OrElse(OrElse(row["Revenue"], row["MRR"]), NumCell(Zero))
      [] field = "operatingExpenses" ->
            OrElse(OrElse(row["Operating Expenses"], row["Expenses"]), NumCell(Zero))
      [] field = "customerCount" ->
            OrElse(OrElse(row["Customer Count"], row["Customers"]), NumCell(Zero))
      [] field = "churnRate" -> OrElse(OrElse(row["Churn Rate"], row["Churn"]), NumCell(Zero))
      [] field = "cashIn" -> OrElse(row["Cash In"], NumCell(Zero))
      [] field = "cashOut" -> OrElse(row["Cash Out"], NumCell(Zero))
      [] field = "cashBalance" -> OrElse(row["Cash Balance"], NumCell(Zero))

\* The policy range of a numeric field.
PolicyMin(field) == IF field = "cashBalance" THEN <<-1, 1, 12>> ELSE Zero
PolicyMax(field) == IF field = "churnRate" THEN <<1, 1, 2>> ELSE <<1, 1, 12>>

\* The whole of the text, white space at its ends aside, writes a decimal
\* number: an optional sign, digits with an optional fraction, an optional
\* exponent, and nothing after them.
IsNumeral(s) ==
    LET t == Trim(s)
        p == IF Len(t) >= 1 /\ t[1] \in {"+", "-"} THEN 2 ELSE 1
        intEnd == DigitsEnd(t, p)
        fracEnd == IF intEnd <= Len(t) /\ t[intEnd] = "." THEN DigitsEnd(t, intEnd + 1)
                   ELSE intEnd
        digits == (intEnd - p) + (IF fracEnd > intEnd THEN fracEnd - intEnd - 1 ELSE 0)
        q == IF fracEnd + 1 <= Len(t) /\ t[fracEnd + 1] \in {"+", "-"} THEN fracEnd + 2
             ELSE fracEnd + 1
        expEnd == IF fracEnd <= Len(t) /\ t[fracEnd] \in {"e", "E"} /\ DigitsEnd(t, q) > q
                  THEN DigitsEnd(t, q) ELSE fracEnd
    IN  digits >= 1 /\ expEnd = Len(t) + 1

\* The cell holds a number: a finite number, or a text that writes one.
IsNumber(cell) ==
    \/ cell.t = "number" /\ IsFiniteNum(cell.n)
    \/ cell.t = "string" /\ IsNumeral(cell.s)

NumberOf(cell) == IF cell.t = "number" THEN cell.n ELSE parseFloat(cell.s)

\* Row i is the first row with an invalid numeric cell or a failing field, and
\* none of its fields before the given one is invalid or fails.
FirstOffence(i, field) ==
    LET k == CHOOSE n \in 1..Len(FieldOrder) : FieldOrder[n] = field
    IN  /\ \A j \in 1..(i - 1) : FailingFields(file.rows[j]) = {}
        /\ \A n \in 1..(k - 1) : n \notin FailingFields(file.rows[i])

\* C15: a row whose resolved value for a numeric field is not a number (e.g.
\* Revenue = "abc") or lies outside the field's policy range makes parseExcelFile
\* reject, with an error that names the field and the row number and, for a
\* range violation, states the accepted range.
C15_InvalidNumberRejected ==
    (SheetParsed /\ NumberOfRows >= 1 /\ NumberOfRows <= 1000) =>
        \A i \in 1..NumberOfRows : \A field \in NumericFields :
            LET cell == ResolvedCell(file.rows[i], field)
                outside == /\ IsNumber(cell)
                           /\ \/ Lt(NumberOf(cell), PolicyMin(field))
                              \/ Gt(NumberOf(cell), PolicyMax(field))
            IN  (~IsNumber(cell) \/ outside) =>
                    /\ promise.state = "rejected"
                    /\ FirstOffence(i, field) =>
                          /\ promise.reason.row = i + 1
                          /\ promise.reason.field = FieldLabel(field)
                          /\ outside =>
                                /\ promise.reason.text = "Invalid: value must be between"
                                /\ promise.reason.lo = PolicyMin(field)
                                /\ promise.reason.hi = PolicyMax(field)

-----------------------------------------------------------------------------
(* Properties of the validators, checked under SpecValidate *)

\* C16: validateNumber and its non-negative and percentage variants are
\* idempotent on accepted values: for every value accepted with result r,
\* validating r again with the same field and bounds succeeds and returns r.
C16_Idempotent ==
    \A k \in 2..Len(validation.outcomes) :
        /\ validation.outcomes[k - 1].ok
        /\ validation.outcomes[k].ok
        /\ validation.outcomes[k].val = validation.outcomes[k - 1].val

\* A text was accepted as a number that String writes with an exponent, and
\* the number was validated again.
C16_Witness ==
    /\ Len(validation.outcomes) >= 2
    /\ validation.input.t = "string"
    /\ validation.outcomes[1].ok
    /\ validation.outcomes[1].val = <<3, 20000000, 0>>

-----------------------------------------------------------------------------
(* The Upload page: the user selects or drops files and continues; the      *)
(* handler parses the selected file, stores the records and schedules the   *)
(* navigation to the dashboard.                                             *)

MaxTimers == 2    \* the most navigation timers pending at once

NullText == <<"n", "u", "l", "l">>

\* JSON.stringify of a number: a finite number as String writes it, null for
\* NaN and the infinities.
JSONNumber(n) == IF IsFiniteNum(n) THEN NumberToString(n) ELSE NullText

\* JSON.stringify(data): the text of each record's fields, in order.
JSONStringify(value) ==
    [i \in 1..Len(value) |->
        [f \in DOMAIN value[i] |->
            IF f = "date" THEN value[i][f] ELSE JSONNumber(value[i][f])]]

\* JSON.parse(storedData); a null stands where the number was not finite, and
\* arithmetic reads it as 0.
JSONParse(text) ==
    [i \in 1..Len(text) |->
        [f \in DOMAIN text[i] |->
            IF f = "date" THEN text[i][f]
            ELSE IF text[i][f] = NullText THEN Zero
            ELSE parseFloat(text[i][f])]]

\* One thing a handler does: a state setter with its argument, a toast with
\* its title, a call with what it is given.
Effect(op, on, text, items) == [op |-> op, on |-> on, text |-> text, items |-> items]

Has(log, op) == \E i \in 1..Len(log) : log[i].op = op
IndexOf(log, op) == CHOOSE i \in 1..Len(log) : log[i].op = op /\ \A j \in 1..(i - 1) : log[j].op # op
Arg(log, op) == log[IndexOf(log, op)]

\* handleFileChange and handleDrop: the first file of the event, if any,
\* becomes the selected file and success is reset.
ChooseFile(files) ==
    IF files # <<>>
    THEN <<Effect("setFile", TRUE, "", <<files[1]>>), Effect("setSuccess", FALSE, "", <<>>)>>
    ELSE <<>>

\* handleUpload up to its await.
HandleUploadCall(f) ==
    IF f = <<>> THEN <<Effect("toast", FALSE, "No file selected", <<>>)>>
    ELSE <<Effect("setUploading", TRUE, "", <<>>), Effect("parseExcelFile", TRUE, "", f)>>

\* A faulty variant: success is set and the navigation scheduled before the
\* records are stored.
HandleUploadResumeStoreLast(p) ==
    IF p.state = "resolved"
    THEN <<Effect("setSuccess", TRUE, "", <<>>),
           Effect("toast", TRUE, "File uploaded successfully", <<>>),
           Effect("setTimeout", TRUE, "/dashboard", <<>>),
           Effect("setItem", TRUE, "financialData", JSONStringify(p.value)),
           Effect("setUploading", FALSE, "", <<>>)>>
    ELSE <<Effect("toast", FALSE, "Upload failed", <<>>),
           Effect("setUploading", FALSE, "", <<>>)>>

\* A faulty variant: the catch block clears what is stored.
HandleUploadResumeClearOnFail(p) ==
    IF p.state = "resolved"
    THEN <<Effect("setItem", TRUE, "financialData", JSONStringify(p.value)),
           Effect("setSuccess", TRUE, "", <<>>),
           Effect("toast", TRUE, "File uploaded successfully", <<>>),
           Effect("setTimeout", TRUE, "/dashboard", <<>>),
           Effect("setUploading", FALSE, "", <<>>)>>
    ELSE <<Effect("setItem", TRUE, "financialData", JSONStringify(<<>>)),
           Effect("toast", FALSE, "Upload failed", <<>>),
           Effect("setUploading", FALSE, "", <<>>)>>

\* handleUpload from its await on: the try block's rest for a resolved
\* promise, the catch block for a rejected one, and the finally block.
HandleUploadResume(p) ==
    IF p.state = "resolved"
    THEN <<Effect("setItem", TRUE, "financialData", JSONStringify(p.value)),
           Effect("setSuccess", TRUE, "", <<>>),
           Effect("toast", TRUE, "File uploaded successfully", <<>>),
           Effect("setTimeout", TRUE, "/dashboard", <<>>),
           Effect("setUploading", FALSE, "", <<>>)>>
    ELSE <<Effect("toast", FALSE, "Upload failed", <<>>),
           Effect("setUploading", FALSE, "", <<>>)>>

\* the files a user can choose: two sheets that parse (the second with its
\* rows latest first), one with a failing row, an empty one, an unreadable one
UploadFiles ==
    {File(TRUE, "sheet", <<RowJan>>),
     File(TRUE, "sheet", <<RowFebAlias, RowJan>>),
     File(TRUE, "sheet", <<RowJan, RowBadRevenue>>),
     File(TRUE, "sheet", <<>>),
     File(FALSE, "sheet", <<RowJan>>)}

\* what an earlier upload of the session has left in the store
EarlierUpload == JSONStringify(<<RecJan, RecFeb>>)

InitUpload ==
    /\ file = NoFile
    /\ tz = 0
    /\ reader = "done"
    /\ promise = Pending
    /\ settled = 0
    /\ data = <<>>
    /\ kpis = <<>>
    /\ validation = NoValidation
    /\ selected = <<>>
    /\ uploading = FALSE
    /\ success = FALSE
    /\ pc = "idle"
    /\ timers = 0
    /\ fileError = <<>>
    /\ effects = NoEffects
    /\ storage \in {<<>>, <<EarlierUpload>>}
    /\ location = "/upload"
    /\ mounted = FALSE
    /\ chart = <<>>
    /\ cashZero = <<>>

\* The promise has settled and handleUpload's continuation is queued as a
\* microtask: it runs before any other event.
MicrotaskPending == pc = "awaiting" /\ promise.state # "pending"

\* The page is shown and can take an event.
UploadPageReady == location = "/upload" /\ ~MicrotaskPending

\* what an event of the file input or of a drop can carry
EventFiles == {<<>>} \cup {<<f>> : f \in UploadFiles}

\* <input type="file" onChange={handleFileChange}>
HandleFileChange ==
    \E files \in EventFiles :
        LET log == ChooseFile(files)
        IN  /\ UploadPageReady
            /\ effects' = [handler |-> "handleFileChange", log |-> log]
            /\ selected' = IF Has(log, "setFile") THEN Arg(log, "setFile").items ELSE selected
            /\ success' = IF Has(log, "setSuccess") THEN Arg(log, "setSuccess").on ELSE success
            /\ UNCHANGED <<parseVars, kpiVars, validation, fileError, uploading, pc, timers,
                           storage, location, dashboardVars>>

\* <div onDrop={handleDrop}>
HandleDrop ==
    \E files \in EventFiles :
        LET log == ChooseFile(files)
        IN  /\ UploadPageReady
            /\ effects' = [handler |-> "handleDrop", log |-> log]
            /\ selected' = IF Has(log, "setFile") THEN Arg(log, "setFile").items ELSE selected
            /\ success' = IF Has(log, "setSuccess") THEN Arg(log, "setSuccess").on ELSE success
            /\ UNCHANGED <<parseVars, kpiVars, validation, fileError, uploading, pc, timers,
                           storage, location, dashboardVars>>

\* The Continue button, shown when file && !success and enabled when
\* !uploading: handleUpload runs up to its await, where parseExcelFile has
\* created its promise and its reader has started to read.
HandleUpload ==
    LET log == HandleUploadCall(selected)
    IN  /\ UploadPageReady
        /\ selected # <<>> /\ ~success /\ ~uploading
        /\ timers < MaxTimers
        /\ effects' = [handler |-> "handleUpload", log |-> log]
        /\ uploading' =
              IF Has(log, "setUploading") THEN Arg(log, "setUploading").on ELSE uploading
        /\ IF Has(log, "parseExcelFile")
           THEN /\ file' = Arg(log, "parseExcelFile").items[1]
                /\ reader' = "reading"
                /\ promise' = Pending
                /\ settled' = 0
                /\ pc' = "awaiting"
           ELSE UNCHANGED <<file, reader, promise, settled, pc>>
        /\ UNCHANGED <<tz, kpiVars, validation, selected, fileError, success, timers, storage, location,
                       dashboardVars>>

\* The await returns or throws. The state setters act only while the page is
\* mounted; the store and the timer do not depend on it.
HandleUploadAwaited ==
    LET log == HandleUploadResume(promise)
    IN  /\ MicrotaskPending
        /\ effects' = [handler |-> "handleUpload", log |-> log]
        /\ storage' = IF Has(log, "setItem") THEN <<Arg(log, "setItem").items>> ELSE storage
        /\ success' =
              IF Has(log, "setSuccess") /\ location = "/upload"
              THEN Arg(log, "setSuccess").on ELSE success
        /\ uploading' =
              IF Has(log, "setUploading") /\ location = "/upload"
              THEN Arg(log, "setUploading").on ELSE uploading
        /\ timers' = IF Has(log, "setTimeout") THEN timers + 1 ELSE timers
        /\ pc' = "idle"
        /\ UNCHANGED <<parseVars, kpiVars, validation, selected, fileError, location, dashboardVars>>

\* setTimeout(() => { navigate('/dashboard') }, 1000)
NavigateTimer ==
    /\ timers > 0
    /\ ~MicrotaskPending
    /\ timers' = timers - 1
    /\ location' = "/dashboard"
    /\ effects' = [handler |-> "setTimeout", log |-> <<Effect("navigate", TRUE, "/dashboard", <<>>)>>]
    /\ UNCHANGED <<parseVars, kpiVars, validation, selected, fileError, uploading, success, pc, storage,
                   dashboardVars>>

\* The View Dashboard button, shown when success: navigate('/dashboard')
ViewDashboard ==
    /\ UploadPageReady
    /\ success
    /\ location' = "/dashboard"
    /\ effects' = [handler |-> "onClick", log |-> <<Effect("navigate", TRUE, "/dashboard", <<>>)>>]
    /\ UNCHANGED <<parseVars, kpiVars, validation, uploadVars, storage, dashboardVars>>

NextUpload ==
    \/ HandleFileChange
    \/ HandleDrop
    \/ HandleUpload
    \/ ReaderOnLoad
    \/ ReaderOnError
    \/ HandleUploadAwaited
    \/ NavigateTimer
    \/ ViewDashboard

SpecUpload == InitUpload /\ [][NextUpload]_vars

-----------------------------------------------------------------------------
(* Properties of the Upload page, checked under SpecUpload *)

-----------------------------------------------------------------------------
(* The Dashboard page: on mount its effect reads the stored records (or     *)
(* takes demo data), computes the KPIs, and the page renders the chart.     *)

MaxStored == 3    \* the longest stored record sequence the Dashboard is given

D_2024_05_01 == <<"2", "0", "2", "4", "-", "0", "5", "-", "0", "1">>
D_2024_06_01 == <<"2", "0", "2", "4", "-", "0", "6", "-", "0", "1">>

\* const demoData: FinancialData[] = [ ... ]
DemoData ==
    <<Rec(D_2024_01_01, I(45000), I(35000), I(120), I(5), I(42000), I(55000), I(95000)),
      Rec(D_2024_02_01, I(48000), I(38000), I(135), I(4), I(46000), I(52000), I(89000)),
      Rec(D_2024_03_01, I(52000), I(40000), I(150), I(6), I(50000), I(54000), I(85000)),
      Rec(D_2024_04_01, I(55000), I(42000), I(165), I(5), I(53000), I(51000), I(87000)),
      Rec(D_2024_05_01, I(61000), I(45000), I(185), I(7), I(58000), I(53000), I(92000)),
      Rec(D_2024_06_01, I(68000), I(48000), I(210), I(6), I(65000), I(55000), I(102000))>>

MonthNames ==
    <<"Jan", "Feb", "Mar", "Apr", "May", "Jun", "Jul", "Aug", "Sep", "Oct", "Nov", "Dec">>

\* The clock's reading when the page renders, taken for an invalid date.
Today == DateParse(D_2024_06_01)

\* The civil date <<y, m, d>> the time value has in the local time zone.
LocalDate(ms, tzMinutes) ==
    CivilFromDays(NumToInt(Floor(Div(Add(ms, Mul(Int2Num(tzMinutes), MS_PER_MINUTE)),
                                     MS_PER_DAY))))

\* `${date.toLocaleDateString('en-US', { month: 'short' })}
\*  ${date.getFullYear().toString().slice(-2)}`
MonthLabel(ms, tzMinutes) ==
    Only({Only({[month |-> MonthNames[ymd[2]],
                 year |-> SubSeq(digits, IF Len(digits) > 2 THEN Len(digits) - 1 ELSE 1,
                                 Len(digits))] :
                digits \in {NatDigits(ymd[1])}}) :
          ymd \in {LocalDate(ms, tzMinutes)}})

\* One point of the chart. A stored date is a string, so typeof item.date is
\* never 'number'; an invalid date is replaced by the clock's reading.
ChartPoint(item, tzMinutes) ==
    Only({[month |-> MonthLabel(IF date = NaN THEN Today ELSE date, tzMinutes),
           mrr |-> item.revenue,
           burn |-> Sub(item.cashOut, item.cashIn)] :
          date \in {DateParse(item.date)}})

\* const chartData = data.map((item) => { ... })
chartData(arr, tzMinutes) == [i \in 1..Len(arr) |-> ChartPoint(arr[i], tzMinutes)]

\* the record sequences an upload can have stored
StoredSeqs ==
    UNION {[1..n -> {RecJan, RecFeb, RecFebBurn, RecJanSlow, RecAprNoCustomers}] :
           n \in 1..MaxStored}

InitDashboard ==
    /\ file = NoFile
    /\ tz \in TimeZones
    /\ reader = "done"
    /\ promise = Pending
    /\ settled = 0
    /\ data = <<>>
    /\ kpis = <<>>
    /\ validation = NoValidation
    /\ selected = <<>>
    /\ uploading = FALSE
    /\ success = FALSE
    /\ pc = "idle"
    /\ timers = 0
    /\ fileError = <<>>
    /\ effects = NoEffects
    /\ storage \in {<<>>} \cup {<<JSONStringify(seq)>> : seq \in StoredSeqs}
    /\ location = "/dashboard"
    /\ mounted = FALSE
    /\ chart = <<>>
    /\ cashZero = <<>>

\* What the effect does with the stored item: without one it takes the demo
\* data; with one it parses it; in both cases it sets data, and kpis when
\* calculateKPIs returns.
DashboardLoad(stored) ==
    Only({Only({[data |-> parsedData,
                 kpis |-> IF calculated.ok THEN <<calculated>> ELSE <<>>,
                 log |-> (IF stored = <<>> THEN <<Effect("setIsDemo", TRUE, "", <<>>)>>
                          ELSE <<>>)
                         \o <<Effect("setData", TRUE, "", parsedData)>>
                         \o (IF calculated.ok THEN <<Effect("setKpis", TRUE, "", <<>>)>>
                             ELSE IF stored = <<>>
                             THEN <<Effect("console.error", FALSE,
                                           "Failed to calculate demo KPIs:", <<>>)>>
                             ELSE <<Effect("toast", FALSE, "Calculation Error", <<>>)>>)] :
                calculated \in {calculateKPIs(parsedData)}}) :
          parsedData \in {IF stored = <<>> THEN DemoData ELSE JSONParse(stored[1])}})

\* useEffect(() => { ... }, [navigate, toast]): runs once, after the first
\* render, which shows Loading.
DashboardEffect ==
    /\ location = "/dashboard"
    /\ ~mounted
    /\ mounted' = TRUE
    /\ \E loaded \in {DashboardLoad(storage)} :
          /\ data' = loaded.data
          /\ kpis' = loaded.kpis
          /\ effects' = [handler |-> "useEffect", log |-> loaded.log]
    /\ UNCHANGED <<parseVars, validation, uploadVars, storage, location, chart, cashZero>>

\* The Cash Zero Date card shows a day, so the model keeps the date in days
\* since the epoch, which may be a fraction: for a time value t >= 0 the local
\* day of new Date(t) is the floor of t / MS_PER_DAY plus the zone's offset in
\* days, whether or not t was first cut to whole milliseconds.
DaysOf(ms) == Div(ms, MS_PER_DAY)

\* const cashZeroDate = new Date(today.getTime() + monthsRemaining * 30 * 24 *
\* 60 * 60 * 1000): null (<<>>) without kpis or with a current burn rate <= 0,
\* and a date whose time value is NaN beyond the range of Date.
calculateCashZeroDate(k) ==
    IF k = <<>> THEN <<>>
    ELSE IF Lt(k[1].val.burnRate, Zero) \/ k[1].val.burnRate = Zero THEN <<>>
    ELSE Only({IF ~IsFiniteNum(days) THEN <<NaN>>
               ELSE IF Gt(days, DaysOf(MAX_TIME_VALUE)) \/ Lt(days, Neg(DaysOf(MAX_TIME_VALUE)))
               THEN <<NaN>>
               ELSE <<days>> :
               days \in {Add(DaysOf(Today),
                             Mul(k[1].val.runwayMonths, Int2Num(DAYS_PER_MONTH)))}})

\* What the Cash Zero Date card shows: N/A, or the day of a date.
CardText(text, ymd) == [text |-> text, year |-> ymd[1], month |-> ymd[2], day |-> ymd[3]]

\* if (!date) return "N/A"; date.toLocaleDateString('en-US', { day: 'numeric',
\* month: 'short', year: 'numeric' }), which is Invalid Date for a time value
\* that is NaN.
formatCashZeroDate(date, tzMinutes) ==
    IF date = <<>> THEN CardText("N/A", <<0, 0, 0>>)
    ELSE IF date[1] = NaN THEN CardText("Invalid Date", <<0, 0, 0>>)
    ELSE Only({CardText("date",
                        CivilFromDays(NumToInt(Add(whole,
                            Floor(Add(Sub(date[1], whole),
                                      DaysOf(Mul(Int2Num(tzMinutes), MS_PER_MINUTE)))))))) :
               whole \in {Floor(date[1])}})

\* The render that follows the state change: Loading while kpis is null, the
\* chart of data and the cards of kpis otherwise.
DashboardRender ==
    /\ location = "/dashboard"
    /\ mounted
    /\ kpis # <<>>
    /\ \E view \in {<<chartData(data, tz),
                       formatCashZeroDate(calculateCashZeroDate(kpis), tz)>>} :
          /\ <<chart, cashZero>> # <<<<view[1]>>, <<view[2]>>>>
          /\ chart' = <<view[1]>>
          /\ cashZero' = <<view[2]>>
    /\ UNCHANGED <<parseVars, kpiVars, validation, uploadVars, effects, storage, location,
                   mounted>>

NextDashboard == DashboardEffect \/ DashboardRender

SpecDashboard == InitDashboard /\ [][NextDashboard]_vars

-----------------------------------------------------------------------------
(* Properties of the Dashboard page, checked under SpecDashboard *)

\* C19: the chart data projection (date, revenue, net burn = cashOut - cashIn)
\* is derived from the same chronologically sorted sequence the KPI engine
\* uses: its points are in ascending date order whatever the order of the
\* records in the stored sequence, and its last point is the record the KPIs
\* treat as current.
C19_ChartFromSortedSequence ==
    chart # <<>> =>
        LET points == chart[1]
            sortedData == SortByDate(data)
        IN  /\ Len(points) = Len(data)
            /\ \A i \in 1..Len(points) : points[i] = ChartPoint(sortedData[i], tz)
            /\ points[Len(points)].mrr = kpis[1].val.mrr
            /\ points[Len(points)].burn = kpis[1].val.burnRate

-----------------------------------------------------------------------------
(* The columns the Upload page lists as required, checked under Spec *)

\* Must include columns: Date, Revenue, Operating Expenses, Customer Count
RequiredNumericFields == {"revenue", "operatingExpenses", "customerCount"}

\* No row of the sheet has a cell under any of the headers.
LacksColumn(rows, headers) ==
    \A i \in 1..Len(rows) : \A h \in headers : rows[i][h] = Undefined

\* C21: a file whose rows lack the Revenue (and MRR), the Operating Expenses
\* (and Expenses) or the Customer Count (and Customers) column is rejected by
\* the parse.
C21_RequiredColumns ==
    (/\ SheetParsed /\ NumberOfRows >= 1 /\ NumberOfRows <= 1000
     /\ \E field \in RequiredNumericFields :
           LacksColumn(file.rows, NumericHeaders(field))) =>
        promise.state = "rejected"

-----------------------------------------------------------------------------
(* The settling of parseExcelFile's promise *)

\* A read that has started ends with the load event or with the error event:
\* the code never aborts its reader.
SpecFair == Spec /\ WF_vars(Next)

\* C22: each call of parseExcelFile settles its promise exactly once: a run of
\* the load handler or of the read-error handler invokes exactly one of resolve
\* and reject, a settled promise is not settled again, a resolved promise
\* carries no error and a rejected one no records, and the promise of every
\* call is settled in the end.
C22_SettlesExactlyOnce ==
    /\ [][/\ (reader = "reading" /\ reader' = "done") =>
                /\ settled' = settled + 1
                /\ promise.state = "pending"
                /\ promise'.state \in {"resolved", "rejected"}
                /\ promise'.state = "resolved" => promise'.reason = PlainErr("")
                /\ promise'.state = "rejected" =>
                      promise'.value = <<>> /\ promise'.reason # PlainErr("")
          /\ promise.state # "pending" => promise' = promise /\ settled' = settled]_vars
    /\ <>[](settled = 1 /\ promise.state # "pending")

\* The load handler has pushed the record of a first row and rejected for the
\* second: one call was made and the promise is rejected.
C22_Witness ==
    /\ SheetParsed /\ NumberOfRows = 2
    /\ FailingRows = {2}
    /\ settled = 1
    /\ promise.state = "rejected"
    /\ promise.reason.row = 3

\* What parseExcelFile makes of the file: the promise after the one event its
\* reader fires.
ParseOutcome(f, tzMinutes) ==
    SettleAll(Pending, IF f.readable THEN OnLoadCalls(f, tzMinutes) ELSE OnErrorCalls)

\* C23: whenever the Upload page is in the success state, the sequence stored
\* under financialData was parsed from the file currently selected, the one
\* whose name is displayed as uploaded, even if another file was selected or
\* dropped while a parse was in flight.
C23_StoredFromSelectedFile ==
    (location = "/upload" /\ success) =>
        /\ selected # <<>>
        /\ ParseOutcome(selected[1], tz).state = "resolved"
        /\ storage = <<JSONStringify(ParseOutcome(selected[1], tz).value)>>

\* C24: when parseExcelFile rejects, handleUpload leaves the key financialData
\* as it was (what an earlier upload stored stays in place), does not set
\* success, schedules no navigation, and resets uploading to false.
C24_RejectLeavesStore ==
    [][(MicrotaskPending /\ promise.state = "rejected") =>
          LET log == effects'.log
          IN  /\ effects'.handler = "handleUpload"
              /\ ~Has(log, "setItem") /\ storage' = storage
              /\ ~Has(log, "setSuccess") /\ success' = success
              /\ ~Has(log, "setTimeout") /\ timers' = timers /\ location' = location
              /\ Has(log, "setUploading") /\ ~Arg(log, "setUploading").on
              /\ log[Len(log)].op = "setUploading"
              /\ location = "/upload" => ~uploading']_vars

\* A parse was rejected after an earlier upload of the session: the earlier
\* sequence is still stored, and the page shows neither success nor progress.
C24_Witness ==
    /\ effects.handler = "handleUpload"
    /\ Has(effects.log, "toast") /\ Arg(effects.log, "toast").text = "Upload failed"
    /\ promise.state = "rejected"
    /\ pc = "idle"
    /\ storage = <<EarlierUpload>>
    /\ ~success /\ ~uploading /\ timers = 0
    /\ location = "/upload"

\* C25: the Cash Zero Date agrees with the runway metric: the card shows N/A
\* exactly when runwayMonths is the sentinel of an average burn <= 0, and
\* shows the date today + runwayMonths * 30 days exactly when runwayMonths was
\* computed from a positive average burn.
C25_CashZeroMatchesRunway ==
    cashZero # <<>> =>
        LET avgBurnRate == AvgBurnRate(SortByDate(data))
            runwayDays == Mul(kpis[1].val.runwayMonths, Int2Num(DAYS_PER_MONTH))
        IN  /\ cashZero[1].text = "N/A" <=> ~Gt(avgBurnRate, Zero)
            /\ ~Gt(avgBurnRate, Zero) => kpis[1].val.runwayMonths = Int2Num(RUNWAY_SENTINEL)
            /\ Gt(avgBurnRate, Zero) =>
                  cashZero[1] = formatCashZeroDate(<<Add(DaysOf(Today), runwayDays)>>, tz)

-----------------------------------------------------------------------------
(* The sign of the runway, checked under SpecKPI *)

\* C26: for every non-empty sequence of valid records runwayMonths and runway
\* are not negative, also when the current record's cashBalance is negative.
C26_RunwayNotNegative ==
    (Called /\ data # <<>> /\ \A i \in 1..Len(data) : DataModelInvariant(data[i])) =>
        /\ ~Lt(Result.val.runwayMonths, Zero)
        /\ ~Lt(Result.val.runway, Zero)

\* customer counts to put in place of the current record's
CustomerCounts == {Int2Num(1), Int2Num(7), Int2Num(1000)}

\* The sequence with the customer count of its current record replaced.
WithCustomerCount(seq, count) ==
    [seq EXCEPT ![LatestIndex(seq)] = [@ EXCEPT !.customerCount = count]]

\* C29: whenever the current record has customerCount > 0 and
\* operatingExpenses > 0, ltvCacRatio is 36 * revenue / operatingExpenses and
\* does not depend on customerCount: with any other positive customer count in
\* the current record the call returns the same ratio.
C29_RatioWithoutCustomers ==
    (/\ Called /\ data # <<>>
     /\ Gt(Latest(data).customerCount, Zero)
     /\ Gt(Latest(data).operatingExpenses, Zero)) =>
        /\ Result.val.ltvCacRatio =
              Div(Mul(Int2Num(36), Latest(data).revenue), Latest(data).operatingExpenses)
        /\ \A count \in CustomerCounts :
              calculateKPIs(WithCustomerCount(data, count)).val.ltvCacRatio =
                  Result.val.ltvCacRatio

\* The current record of two has 110 customers, and the ratio is
\* 36 * 55000 / 32000.
C29_Witness ==
    /\ Called /\ Len(data) = 2
    /\ Latest(data) = RecFeb
    /\ Result.val.ltvCacRatio = <<495, 8, 0>>
    /\ Result.val.ltvCacRatio # Zero

-----------------------------------------------------------------------------
(* The check after the row loop, checked under Spec *)

DateColumnMissing == PlainErr("Missing required column: Date or Month")

\* C30: the check after the row loop never fails: no parse is rejected with
\* Missing required column: Date or Month, because every row that validates
\* has a non-empty date; a first row without a date is rejected in the loop
\* with Row 2: Date is required.
C30_PostLoopCheckNeverFails ==
    /\ promise.reason # DateColumnMissing
    /\ (SheetParsed /\ NumberOfRows >= 1 /\ NumberOfRows <= 1000) =>
          /\ \A i \in 1..NumberOfRows :
                LET parsedRow == ParseRow(file.rows[i], tz)
                IN  parsedRow.ok => parsedRow.val.date # <<>>
          /\ promise.state = "resolved" => promise.value[1].date # <<>>
          /\ MissingOrBlank(file.rows[1], {"Date", "Month"}) =>
                /\ promise.state = "rejected"
                /\ promise.reason = RowError(2, PlainErr("Date is required"))

\* The only row of the sheet has no date, and the parse is rejected for it.
C30_Witness ==
    /\ SheetParsed /\ NumberOfRows = 1
    /\ MissingOrBlank(file.rows[1], {"Date", "Month"})
    /\ promise.state = "rejected"
    /\ promise.reason = RowError(2, PlainErr("Date is required"))

-----------------------------------------------------------------------------
(* The Upload page with its file gate (validateFile) and its sample data,   *)
(* followed by the Dashboard: one session of the application.               *)

\* const MAX_FILE_SIZE = 10 * 1024 * 1024
MAX_FILE_SIZE == 10485760
EXT_XLSX ==
    <<".", "x", "l", "s", "x">>
EXT_XLS ==
    <<".", "x", "l", "s">>
EXT_CSV ==
    <<".", "c", "s", "v">>
ALLOWED_EXTENSIONS == <<EXT_XLSX, EXT_XLS, EXT_CSV>>

MIME_XLSX ==
    <<"a", "p", "p", "l", "i", "c", "a", "t", "i", "o", "n", "/", "v", "n", "d", ".",
      "o", "p", "e", "n", "x", "m", "l", "f", "o", "r", "m", "a", "t", "s", "-", "o",
      "f", "f", "i", "c", "e", "d", "o", "c", "u", "m", "e", "n", "t", ".", "s", "p",
      "r", "e", "a", "d", "s", "h", "e", "e", "t", "m", "l", ".", "s", "h", "e", "e",
      "t">>
MIME_XLS ==
    <<"a", "p", "p", "l", "i", "c", "a", "t", "i", "o", "n", "/", "v", "n", "d", ".",
      "m", "s", "-", "e", "x", "c", "e", "l">>
MIME_TEXT_CSV ==
    <<"t", "e", "x", "t", "/", "c", "s", "v">>
MIME_APPLICATION_CSV ==
    <<"a", "p", "p", "l", "i", "c", "a", "t", "i", "o", "n", "/", "c", "s", "v">>
ALLOWED_MIME_TYPES == <<MIME_XLSX, MIME_XLS, MIME_TEXT_CSV, MIME_APPLICATION_CSV>>

MIME_TEXT_PLAIN ==
    <<"t", "e", "x", "t", "/", "p", "l", "a", "i", "n">>
MIME_PDF ==
    <<"a", "p", "p", "l", "i", "c", "a", "t", "i", "o", "n", "/", "p", "d", "f">>
TEXT ==
    <<"t", "e", "x", "t">>

UpperCaseLetters ==
    <<"A", "B", "C", "D", "E", "F", "G", "H", "I", "J", "K", "L", "M", "N", "O", "P",
      "Q", "R", "S", "T", "U", "V", "W", "X", "Y", "Z">>
LowerCaseLetters ==
    <<"a", "b", "c", "d", "e", "f", "g", "h", "i", "j", "k", "l", "m", "n", "o", "p",
      "q", "r", "s", "t", "u", "v", "w", "x", "y", "z">>

\* the names of the files a user can choose
NAME_DATA_XLSX ==
    <<"d", "a", "t", "a", ".", "x", "l", "s", "x">>
NAME_DATA_XLS_UPPER ==
    <<"D", "A", "T", "A", ".", "X", "L", "S">>
NAME_ROWS_CSV ==
    <<"r", "o", "w", "s", ".", "c", "s", "v">>
NAME_NOTES_TXT ==
    <<"n", "o", "t", "e", "s", ".", "t", "x", "t">>

\* fileName.toLowerCase(), for the letters A to Z
ToLowerCase(s) ==
    [i \in 1..Len(s) |->
        IF \E k \in 1..Len(UpperCaseLetters) : UpperCaseLetters[k] = s[i]
        THEN LowerCaseLetters[CHOOSE k \in 1..Len(UpperCaseLetters) : UpperCaseLetters[k] = s[i]]
        ELSE s[i]]

\* s.endsWith(w)
EndsWith(s, w) == Len(w) <= Len(s) /\ SubSeq(s, Len(s) - Len(w) + 1, Len(s)) = w

\* s.includes(w)
Includes(s, w) == \E i \in 1..(Len(s) - Len(w) + 1) : SubSeq(s, i, i + Len(w) - 1) = w

\* What validateFile returns: valid, or the error with the size it names.
Valid == [valid |-> TRUE, error |-> "", size |-> 0]
Invalid(error, size) == [valid |-> FALSE, error |-> error, size |-> size]

\* A faulty variant: a file of size 0 passes.
validateFileAllowEmpty(f) ==
    Only({Only({IF f.size > MAX_FILE_SIZE
                THEN Invalid("File size exceeds 10MB limit", f.size)
                ELSE IF ~hasValidExtension
                THEN Invalid("Invalid file type", 0)
                ELSE IF ~isValidMime /\ f.type # <<>>
                THEN Invalid("File type mismatch", 0)
                ELSE Valid :
                hasValidExtension \in
                    {\E k \in 1..Len(ALLOWED_EXTENSIONS) :
                        EndsWith(fileName, ALLOWED_EXTENSIONS[k])},
                isValidMime \in
                    {\/ \E k \in 1..Len(ALLOWED_MIME_TYPES) : ALLOWED_MIME_TYPES[k] = f.type
                     \/ /\ EndsWith(fileName, EXT_CSV)
                        /\ (f.type = <<>> \/ Includes(f.type, TEXT))}}) :
          fileName \in {ToLowerCase(f.name)}})

\* const validateFile = (file: File): { valid: boolean; error?: string }
validateFile(f) ==
    Only({Only({IF f.size > MAX_FILE_SIZE
                THEN Invalid("File size exceeds 10MB limit", f.size)
                ELSE IF f.size = 0
                THEN Invalid("File appears to be empty or corrupted.", 0)
                ELSE IF ~hasValidExtension
                THEN Invalid("Invalid file type", 0)
                ELSE IF ~isValidMime /\ f.type # <<>>
                THEN Invalid("File type mismatch", 0)
                ELSE Valid :
                hasValidExtension \in
                    {\E k \in 1..Len(ALLOWED_EXTENSIONS) :
                        EndsWith(fileName, ALLOWED_EXTENSIONS[k])},
                isValidMime \in
                    {\/ \E k \in 1..Len(ALLOWED_MIME_TYPES) : ALLOWED_MIME_TYPES[k] = f.type
                     \/ /\ EndsWith(fileName, EXT_CSV)
                        /\ (f.type = <<>> \/ Includes(f.type, TEXT))}}) :
          fileName \in {ToLowerCase(f.name)}})

\* handleFileChange and handleDrop of this page: the first file of the event,
\* if any, is validated; a file that fails sets fileError and clears the
\* selected file, a file that passes clears fileError, becomes the selected
\* file and resets success.
ChooseValidFile(files) ==
    IF files = <<>> THEN <<>>
    ELSE Only({IF ~checked.valid
               THEN <<Effect("validateFile", FALSE, checked.error, <<files[1]>>),
                      Effect("setFileError", TRUE,
                             IF checked.error = "" THEN "Invalid file" ELSE checked.error,
                             <<>>),
                      Effect("setFile", FALSE, "", <<>>),
                      Effect("toast", FALSE, "Invalid file", <<>>)>>
               ELSE <<Effect("validateFile", TRUE, "", <<files[1]>>),
                      Effect("setFileError", FALSE, "", <<>>),
                      Effect("setFile", TRUE, "", <<files[1]>>),
                      Effect("setSuccess", FALSE, "", <<>>)>> :
               checked \in {validateFile(files[1])}})

\* const sampleData: FinancialData[] = [ ... ]
SampleData ==
    <<Rec(D_2024_01_01, I(50000), I(30000), I(100), I(5), I(55000), I(35000), I(200000)),
      Rec(D_2024_02_01, I(55000), I(32000), I(110), <<9, 2, 0>>, I(60000), I(37000), I(223000)),
      Rec(D_2024_03_01, I(60000), I(35000), I(120), I(4), I(65000), I(40000), I(248000)),
      Rec(D_2024_04_01, I(68000), I(38000), I(132), <<19, 5, 0>>, I(72000), I(43000), I(277000)),
      Rec(D_2024_05_01, I(75000), I(42000), I(145), <<7, 2, 0>>, I(80000), I(47000), I(310000)),
      Rec(D_2024_06_01, I(85000), I(45000), I(160), <<16, 5, 0>>, I(90000), I(52000), I(348000))>>

\* A faulty variant: the button stores an empty array.
UseSampleDataEmpty(sampleData) ==
    <<Effect("setItem", TRUE, "financialData", JSONStringify(<<>>)),
      Effect("toast", TRUE, "Sample data loaded", <<>>),
      Effect("setTimeout", TRUE, "/dashboard", <<>>)>>

\* handleUseSampleData, after the literal of its sample records
UseSampleData(sampleData) ==
    <<Effect("setItem", TRUE, "financialData", JSONStringify(sampleData)),
      Effect("toast", TRUE, "Sample data loaded", <<>>),
      Effect("setTimeout", TRUE, "/dashboard", <<>>)>>

\* A file as the page sees it: its name, MIME type and size in bytes, and what
\* the reader and XLSX make of its bytes.
NamedFile(name, type, size, f) ==
    [readable |-> f.readable, xlsx |-> f.xlsx, rows |-> f.rows,
     name |-> name, type |-> type, size |-> size]

\* the files a user of this page can choose: four that pass the gate (one at
\* the size limit with an upper-case name, one with a text type whose rows are
\* all invalid, one without a type that cannot be read) and six that fail it
\* by size, by name and by type
GatedFiles ==
    {NamedFile(NAME_DATA_XLSX, MIME_XLSX, 2048, File(TRUE, "sheet", <<RowJan>>)),
     NamedFile(NAME_DATA_XLS_UPPER, MIME_XLS, MAX_FILE_SIZE,
               File(TRUE, "sheet", <<RowFebAlias, RowJan>>)),
     NamedFile(NAME_ROWS_CSV, MIME_TEXT_PLAIN, 512, File(TRUE, "sheet", <<RowBadRevenue>>)),
     NamedFile(NAME_ROWS_CSV, <<>>, 1, File(FALSE, "sheet", <<RowJan>>)),
     NamedFile(NAME_DATA_XLSX, MIME_XLSX, 0, File(TRUE, "sheet", <<RowJan>>)),
     NamedFile(NAME_DATA_XLSX, MIME_XLSX, MAX_FILE_SIZE + 1, File(TRUE, "sheet", <<RowJan>>)),
     NamedFile(NAME_NOTES_TXT, MIME_TEXT_PLAIN, 100, File(TRUE, "sheet", <<RowJan>>)),
     NamedFile(NAME_DATA_XLSX, MIME_PDF, 100, File(TRUE, "sheet", <<RowJan>>)),
     NamedFile(NAME_DATA_XLSX, MIME_TEXT_PLAIN, 100, File(TRUE, "sheet", <<RowJan>>)),
     NamedFile(NAME_ROWS_CSV, MIME_PDF, 100, File(TRUE, "sheet", <<RowJan>>))}

GatedEventFiles == {<<>>} \cup {<<f>> : f \in GatedFiles}

\* a session that starts on the Upload page with nothing stored
InitApp == InitUpload /\ storage = <<>>

\* <input type="file" onChange={handleFileChange}> of the page with the gate
HandleFileChangeValidated ==
    /\ UploadPageReady
    /\ \E files \in GatedEventFiles :
        \E log \in {ChooseValidFile(files)} :
            /\ effects' = [handler |-> "handleFileChange", log |-> log]
            /\ selected' = IF Has(log, "setFile") THEN Arg(log, "setFile").items ELSE selected
            /\ fileError' =
                  IF ~Has(log, "setFileError") THEN fileError
                  ELSE IF Arg(log, "setFileError").on THEN <<Arg(log, "setFileError").text>>
                  ELSE <<>>
            /\ success' = IF Has(log, "setSuccess") THEN Arg(log, "setSuccess").on ELSE success
            /\ UNCHANGED <<parseVars, kpiVars, validation, uploading, pc, timers, storage,
                           location, dashboardVars>>

\* <div onDrop={handleDrop}> of the page with the gate
HandleDropValidated ==
    /\ UploadPageReady
    /\ \E files \in GatedEventFiles :
        \E log \in {ChooseValidFile(files)} :
            /\ effects' = [handler |-> "handleDrop", log |-> log]
            /\ selected' = IF Has(log, "setFile") THEN Arg(log, "setFile").items ELSE selected
            /\ fileError' =
                  IF ~Has(log, "setFileError") THEN fileError
                  ELSE IF Arg(log, "setFileError").on THEN <<Arg(log, "setFileError").text>>
                  ELSE <<>>
            /\ success' = IF Has(log, "setSuccess") THEN Arg(log, "setSuccess").on ELSE success
            /\ UNCHANGED <<parseVars, kpiVars, validation, uploading, pc, timers, storage,
                           location, dashboardVars>>

\* The Try with Sample Data button: the sample records are stored and the
\* navigation to the dashboard is scheduled.
HandleUseSampleData ==
    /\ UploadPageReady
    /\ timers < MaxTimers
    /\ \E log \in {UseSampleData(SampleData)} :
        /\ effects' = [handler |-> "handleUseSampleData", log |-> log]
        /\ storage' = IF Has(log, "setItem") THEN <<Arg(log, "setItem").items>> ELSE storage
        /\ timers' = IF Has(log, "setTimeout") THEN timers + 1 ELSE timers
        /\ UNCHANGED <<parseVars, kpiVars, validation, selected, fileError, uploading, success,
                       pc, location, dashboardVars>>

NextApp ==
    \/ HandleFileChangeValidated
    \/ HandleDropValidated
    \/ HandleUseSampleData
    \/ HandleUpload
    \/ ReaderOnLoad
    \/ ReaderOnError
    \/ HandleUploadAwaited
    \/ NavigateTimer
    \/ ViewDashboard
    \/ DashboardEffect
    \/ DashboardRender

SpecApp == InitApp /\ [][NextApp]_vars

-----------------------------------------------------------------------------
(* Properties of the session, checked under SpecApp *)

\* The gate in the words of the page's requirements: a size above 0 and of at
\* most 10 MB, a name that ends, in lower case, in .xlsx, .xls or .csv, and a
\* MIME type that is empty, or allowed, or for a .csv name contains text.
PassesGate(f) ==
    /\ 0 < f.size /\ f.size <= 10 * 1024 * 1024
    /\ \E ext \in {EXT_XLSX, EXT_XLS, EXT_CSV} : EndsWith(ToLowerCase(f.name), ext)
    /\ \/ f.type = <<>>
       \/ f.type \in {MIME_XLSX, MIME_XLS, MIME_TEXT_CSV, MIME_APPLICATION_CSV}
       \/ EndsWith(ToLowerCase(f.name), EXT_CSV) /\ Includes(f.type, TEXT)

\* C28: a chosen or dropped file becomes the selected file only if it passes
\* the gate; otherwise the selected file is set to null and fileError is set.
\* So handleUpload never passes a file that failed the gate to parseExcelFile,
\* and fileError is non-null only while no file is selected.
C28_FileGate ==
    [][LET log == effects'.log
       IN  /\ (effects'.handler \in {"handleFileChange", "handleDrop"}
                  /\ Has(log, "validateFile")) =>
                 LET f == Arg(log, "validateFile").items[1]
                 IN  IF PassesGate(f)
                     THEN selected' = <<f>> /\ fileError' = <<>>
                     ELSE selected' = <<>> /\ fileError' # <<>>
           /\ selected' # <<>> => PassesGate(selected'[1])
           /\ (pc = "idle" /\ pc' = "awaiting") =>
                 /\ Has(log, "parseExcelFile")
                 /\ file' = selected[1]
                 /\ PassesGate(file')
           /\ fileError' # <<>> => selected' = <<>>]_vars

\* While a file that passed the gate is being parsed, a file of size 0 was
\* dropped: it was turned away, no file is selected and fileError is set.
C28_Witness ==
    /\ pc = "awaiting"
    /\ PassesGate(file)
    /\ effects.handler = "handleDrop"
    /\ Has(effects.log, "validateFile")
    /\ Arg(effects.log, "validateFile").items[1].size = 0
    /\ selected = <<>>
    /\ fileError = <<"File appears to be empty or corrupted.">>

====
